---------------------------- MODULE Spec2Model ----------------------------
(***************************************************************************)
(* Model of the directive batch engine of json-parser.js (latest version,   *)
(* src/unnamed/part_004) and of the remote store it drives (src/github.js). *)
(*                                                                          *)
(* Strings are sequences of one-character strings; "\n" is the line break.  *)
(* A JavaScript number is an integer, or NaN (the value parseInt gives for  *)
(* a non-numeric text).                                                     *)
(***************************************************************************)
EXTENDS Integers, Sequences, FiniteSets, TLC

(***************************************************************************)
(* Bounds of the model.                                                     *)
(***************************************************************************)
\* longest file (in lines) the line-patch specification starts from
MaxLines == 2
\* largest insert/delete group handed to the line-patch specification
MaxGroup == 2
\* longest batch of well-formed candidates handed to parseAndExecuteJSON
MaxOps == 3
\* longest batch of the candidates validation rejects or normalises
MaxRaw == 2
\* longest batch whose store calls are followed one by one
MaxCalls == 2
\* most pieces (prose, fenced blocks, arrays, objects) a response text is
\* put together from
MaxPieces == 2
\* largest group of each of two runs that patch the same file at once
MaxRace == 2

\* most requests the server of the conversation specification receives
MaxRequests == 6

\* most writes the batches of the cache specification make to the file
MaxWrites == 2

\* most deployments the server of the page specification has had
MaxDeploys == 2

\* most polls of the deployment status the page starts
MaxPolls == 4

(***************************************************************************)
(* JavaScript values.                                                       *)
(***************************************************************************)
\* parseInt's NaN (part_004:150); no line number of the model equals it
NaN == -99

NL == "\n"

IsNaN(x) == x = NaN

\* String.prototype.split('\n'): always at least one piece
RECURSIVE split(_)
split(s) ==
  IF \A i \in 1..Len(s) : s[i] # NL
    THEN <<s>>
    ELSE LET i == CHOOSE k \in 1..Len(s) :
                     s[k] = NL /\ \A j \in 1..(k - 1) : s[j] # NL
         IN  <<SubSeq(s, 1, i - 1)>> \o split(SubSeq(s, i + 1, Len(s)))

\* Array.prototype.join('\n'): the empty array gives the empty string
RECURSIVE join(_)
join(ls) ==
  IF Len(ls) = 0 THEN <<>>
  ELSE IF Len(ls) = 1 THEN ls[1]
  ELSE ls[1] \o <<NL>> \o join(Tail(ls))

\* Array.prototype.splice(index, count, ...items) on a 0-based index
splice(lines, index, count, items) ==
  SubSeq(lines, 1, index) \o items \o SubSeq(lines, index + count + 1, Len(lines))

(***************************************************************************)
(* The line-patch engine.  A result is [ok, lines, err].                    *)
(***************************************************************************)
Thrown(e) == [ok |-> FALSE, lines |-> <<>>, err |-> e]
Returned(ls) == [ok |-> TRUE, lines |-> ls, err |-> "none"]

\* deleteAtLine comparing the first expected line only
deleteAtLineFirstLineOnly(lines, lineNumber, codeToDelete) ==
  IF IsNaN(lineNumber) THEN Thrown("ContentMismatch")
  ELSE
  LET index == lineNumber - 1
      deleteLines == split(codeToDelete)
  IN  IF index < 0 \/ index >= Len(lines) THEN Thrown("OutOfRange")
      ELSE IF lines[index + 1] # deleteLines[1] THEN Thrown("ContentMismatch")
      ELSE Returned(splice(lines, index, Len(deleteLines), <<>>))

\* A NaN line passes the range check (every comparison with NaN is false) and
\* lines[NaN] is undefined, which equals no expected line.
deleteAtLine(lines, lineNumber, codeToDelete) ==
  IF IsNaN(lineNumber) THEN Thrown("ContentMismatch")
  ELSE
  LET index == lineNumber - 1
      deleteLines == split(codeToDelete)
  IN  IF index < 0 \/ index >= Len(lines) THEN Thrown("OutOfRange")
      ELSE IF \E i \in 0..(Len(deleteLines) - 1) :
                 index + i >= Len(lines) \/ lines[index + i + 1] # deleteLines[i + 1]
        THEN Thrown("ContentMismatch")
        ELSE Returned(splice(lines, index, Len(deleteLines), <<>>))

\* insertAtLine with the range check of deleteAtLine (index = length throws)
insertAtLineStrict(lines, lineNumber, codeToInsert) ==
  IF IsNaN(lineNumber) THEN Returned(splice(lines, 0, 0, split(codeToInsert)))
  ELSE
  LET index == lineNumber - 1
  IN  IF index < 0 \/ index >= Len(lines) THEN Thrown("OutOfRange")
      ELSE Returned(splice(lines, index, 0, split(codeToInsert)))

\* insertAtLine putting the code after the line instead of before it
insertAtLineAfter(lines, lineNumber, codeToInsert) ==
  IF IsNaN(lineNumber) THEN Returned(splice(lines, 0, 0, split(codeToInsert)))
  ELSE
  LET index == lineNumber - 1
  IN  IF index < 0 \/ index > Len(lines) THEN Thrown("OutOfRange")
      ELSE Returned(splice(lines, IF index < Len(lines) THEN index + 1 ELSE index,
                           0, split(codeToInsert)))

\* A NaN line passes the range check and splice(NaN, 0, ...) inserts at
\* index 0.
insertAtLine(lines, lineNumber, codeToInsert) ==
  IF IsNaN(lineNumber) THEN Returned(splice(lines, 0, 0, split(codeToInsert)))
  ELSE
  LET index == lineNumber - 1
  IN  IF index < 0 \/ index > Len(lines) THEN Thrown("OutOfRange")
      ELSE Returned(splice(lines, index, 0, split(codeToInsert)))

\* one pass of the loop "for (const op of operations)" of processFileOperations
applyOp(lines, op) ==
  IF op.action = "delete" THEN deleteAtLine(lines, op.line, op.code)
  ELSE IF op.action = "insert" THEN insertAtLine(lines, op.line, op.code)
  ELSE Returned(lines)

(***************************************************************************)
(* The sort of processFileOperations.                                       *)
(***************************************************************************)
\* the comparator without the tie-break on the action
compareLineOnly(a, b) ==
  IF IsNaN(a.line) \/ IsNaN(b.line) THEN 0
  ELSE IF b.line # a.line THEN b.line - a.line
  ELSE 0

\* the comparator sorting ascending
compareAscending(a, b) ==
  IF IsNaN(a.line) \/ IsNaN(b.line) THEN 0
  ELSE IF b.line # a.line THEN a.line - b.line
  ELSE IF a.action = "delete" /\ b.action = "insert" THEN -1
  ELSE IF a.action = "insert" /\ b.action = "delete" THEN 1
  ELSE 0

\* The comparator's result as Array.prototype.sort reads it: b.line - a.line
\* is NaN when either line is NaN (NaN !== NaN as well), and sort takes a NaN
\* result for +0.
compare(a, b) ==
  IF IsNaN(a.line) \/ IsNaN(b.line) THEN 0
  ELSE IF b.line # a.line THEN b.line - a.line
  ELSE IF a.action = "delete" /\ b.action = "insert" THEN -1
  ELSE IF a.action = "insert" /\ b.action = "delete" THEN 1
  ELSE 0

\* Array.prototype.sort as V8 runs it on an array shorter than 64 elements
\* (TimSort with one run): the leading run is counted, reversed when strictly
\* descending, and the rest is put in place by binary insertion.  With a
\* consistent comparator this is the stable sort; with an inconsistent one
\* (a NaN line) it is what the engine leaves in the array.
At(a, i) == a[i + 1]

\* CountAndMakeRun: is the leading run strictly descending
runDescending(a) == compare(At(a, 1), At(a, 0)) < 0

\* CountAndMakeRun: the length of the leading run
runLength(a) ==
  IF Len(a) < 2 THEN Len(a)
  ELSE LET goesOn(idx) ==
             LET order == compare(At(a, idx), At(a, idx - 1))
             IN  IF runDescending(a) THEN order < 0 ELSE order >= 0
       IN  CHOOSE r \in 2..Len(a) :
             /\ \A idx \in 2..(r - 1) : goesOn(idx)
             /\ r < Len(a) => ~goesOn(r)

reverse(a) == [i \in 1..Len(a) |-> a[Len(a) + 1 - i]]

\* CountAndMakeRun: the array with a descending leading run reversed
makeRun(a) ==
  IF Len(a) >= 2 /\ runDescending(a)
    THEN reverse(SubSeq(a, 1, runLength(a))) \o SubSeq(a, runLength(a) + 1, Len(a))
    ELSE a

\* BinaryInsertionSort: where pivot belongs in a[left..right-1]
RECURSIVE binarySearch(_, _, _, _)
binarySearch(a, pivot, left, right) ==
  IF left >= right THEN left
  ELSE LET mid == left + ((right - left) \div 2)
       IN  IF compare(pivot, At(a, mid)) < 0
             THEN binarySearch(a, pivot, left, mid)
             ELSE binarySearch(a, pivot, mid + 1, right)

\* BinaryInsertionSort: a[0..start-1] is in order, the rest is inserted
RECURSIVE binaryInsertionSort(_, _)
binaryInsertionSort(a, start) ==
  IF start >= Len(a) THEN a
  ELSE LET pivot == At(a, start)
           left == binarySearch(a, pivot, 0, start)
       IN  binaryInsertionSort(
             SubSeq(a, 1, left) \o <<pivot>> \o SubSeq(a, left + 1, start)
               \o SubSeq(a, start + 2, Len(a)),
             start + 1)

\* operations.sort((a, b) => ...)
sort(ops) ==
  IF Len(ops) < 2 THEN ops ELSE binaryInsertionSort(makeRun(ops), runLength(ops))

(***************************************************************************)
(* State.                                                                   *)
(* The p-variables are one run of the sort-and-apply part of                *)
(* processFileOperations, one directive per step.                           *)
(***************************************************************************)
VARIABLES
  pOrig,      \* fileData.content.split('\n'): the lines as fetched
  pInput,     \* the group as parseAndExecuteJSON collected it
  pSorted,    \* operations after operations.sort(...)
  pLines,     \* lines
  pIdx,       \* directives of pSorted applied so far
  pPrev,      \* lines as they were before the last applied directive
  pState,     \* "fetched", "sorted", "joined" (newContent computed) or "thrown"
  pErr        \* what the throwing directive threw

pvars == <<pOrig, pInput, pSorted, pLines, pIdx, pPrev, pState, pErr>>

(***************************************************************************)
(* The b-variables are one run of parseAndExecuteJSON against the store.    *)
(***************************************************************************)
VARIABLES
  argument,   \* the argument of parseAndExecuteJSON: an array, or one value
  operations, \* the argument as an array of raw candidates
  validatedOperations, \* the directives validateOperation returned
  raised,     \* the grouping loop threw: parseAndExecuteJSON rejects
  deleteFileOperations, \* the delete_file directives, in batch order
  fileOperations,       \* Object.entries(fileOperations): <<file, group>>
  createOperations,     \* the create directives, in batch order
  store0,     \* the store when the run started
  store,      \* the store: path -> [exists, content]
  nDel,       \* delete_file directives handled so far (loop 1)
  nMod,       \* file groups handled so far (loop 2)
  nCre,       \* create directives handled so far (loop 3)
  returned,   \* parseAndExecuteJSON has returned results
  results,    \* results
  calls,      \* every call made to the store adapter, in order
  faulted     \* the store failed a call it would have served (network
              \* error, 5xx, a tag made stale by another writer)

bvars == <<argument, operations, validatedOperations, raised,
           deleteFileOperations, fileOperations,
           createOperations, store0, store, nDel, nMod, nCre, returned, results,
           calls, faulted>>

\* the batch and its three collections
batch == <<argument, operations, validatedOperations, raised,
           deleteFileOperations, fileOperations,
           createOperations>>

(***************************************************************************)
(* The c-variables follow the store calls of one run one by one: each call  *)
(* is issued, is outstanding, and settles.                                  *)
(***************************************************************************)
VARIABLES
  cHandlers,    \* the handlers the three loops call, in order: [phase, file]
  cItem,        \* the handler running (0: none yet)
  cPc,          \* where the run is
  cOutstanding, \* the calls issued and not yet settled
  cErr,         \* the error createFile caught
  cIssued       \* the calls issued so far, in order

cvars == <<cHandlers, cItem, cPc, cOutstanding, cErr, cIssued>>

(***************************************************************************)
(* The e-variables are one run of extractJSONOperations on a text.          *)
(***************************************************************************)
VARIABLES
  text,        \* the argument of extractJSONOperations
  patternIdx,  \* the pattern of the for loop: 1..4, 5 past the last one
  lastIndex,   \* pattern.lastIndex
  jsonBlocks,  \* jsonBlocks
  span,        \* match[1] || match[0] of the last match
  kept,        \* what the last match added to jsonBlocks
  eState       \* "exec" (in the loops), "done" (out of them), "returned"

evars == <<text, patternIdx, lastIndex, jsonBlocks, span, kept, eState>>

(***************************************************************************)
(* The r-variables are two runs of processFileOperations on the same file   *)
(* at once (two requests being served), each a fetch and then a write.      *)
(***************************************************************************)
VARIABLES
  rGroup,    \* operations of each run
  rPc,       \* where each run is: "start", "fetched", "returned"
  rFetched,  \* fileData of each run, and how many writes had been sent then
  rStore,    \* the store
  rPuts,     \* every updateFile call the store got, in order
  rResult    \* the entry of results each run ended with

rvars == <<rGroup, rPc, rFetched, rStore, rPuts, rResult>>

(***************************************************************************)
(* The h-variables are the conversation of server.js and the requests that  *)
(* push to it, each request stopping at its awaits.                         *)
(***************************************************************************)
VARIABLES
  conversationHistory,  \* conversationHistory: entries [role, req]
  hAll,      \* every entry pushed since the conversation was last cleared
  hPc,       \* where each request being served is
  hKind,     \* "chat" or "autofix", per request being served
  hReq,      \* the number of the request, per request being served
  hStarted,  \* requests received so far
  hStale     \* the requests that were being served at the last clear

hvars == <<conversationHistory, hAll, hPc, hKind, hReq, hStarted, hStale>>

(***************************************************************************)
(* The k-variables are the file cache of server.js for one file of the      *)
(* repository, the file in the store, and the requests that read and write  *)
(* them.                                                                    *)
(***************************************************************************)
VARIABLES
  fileCache,  \* fileCache.get(path): NoEntry or [content, fresh]
  kStore,     \* the content of the file in the store, a version number
  kPc,        \* where each request being served is
  kKind,      \* "chat", "execute" or "autofix", per request being served
  kRead,      \* the content the store served to the fetch a request awaits,
              \* then the content its batch wrote
  kDone       \* the last content written by a batch whose run has returned

kvars == <<fileCache, kStore, kPc, kKind, kRead, kDone>>

(***************************************************************************)
(* The d-variables are the page polling the deployment status: the          *)
(* deployment at the server, the polls under way, and what the page keeps.  *)
(***************************************************************************)
VARIABLES
  handledFailureIds,     \* handledFailureIds
  lastDeploymentStatus,  \* lastDeploymentStatus
  dDeployment,  \* the latest deployment at the server: [id, status]
  dPc,          \* where each poll under way is
  dData,        \* what each poll's response holds
  dShown,       \* how often the modal was shown for each deployment id
  dReported,    \* the ids a poll has reported to the page as failed
  dStarted      \* polls started so far

dvars == <<handledFailureIds, lastDeploymentStatus, dDeployment, dPc, dData,
           dShown, dReported, dStarted>>

\* the variables of the specifications of server.js and of the page
svars == <<hvars, kvars, dvars>>

vars == <<pvars, bvars, cvars, evars, rvars, svars>>

\* the value the variables of the specification not running keep
Idle == "idle"

PatchIdle ==
  /\ pOrig = Idle /\ pInput = Idle /\ pSorted = Idle /\ pLines = Idle
  /\ pIdx = Idle /\ pPrev = Idle /\ pState = Idle /\ pErr = Idle

CallsIdle ==
  /\ cHandlers = Idle /\ cItem = Idle /\ cPc = Idle /\ cOutstanding = Idle
  /\ cErr = Idle /\ cIssued = Idle

BatchIdle ==
  /\ argument = Idle /\ operations = Idle /\ validatedOperations = Idle
  /\ raised = Idle
  /\ deleteFileOperations = Idle /\ fileOperations = Idle
  /\ createOperations = Idle /\ store0 = Idle /\ store = Idle /\ nDel = Idle
  /\ nMod = Idle /\ nCre = Idle /\ returned = Idle /\ results = Idle
  /\ calls = Idle /\ faulted = Idle

ExtractIdle ==
  /\ text = Idle /\ patternIdx = Idle /\ lastIndex = Idle /\ jsonBlocks = Idle
  /\ span = Idle /\ kept = Idle /\ eState = Idle

RaceIdle ==
  /\ rGroup = Idle /\ rPc = Idle /\ rFetched = Idle /\ rStore = Idle
  /\ rPuts = Idle /\ rResult = Idle

HistoryIdle ==
  /\ conversationHistory = Idle /\ hAll = Idle /\ hPc = Idle /\ hKind = Idle
  /\ hReq = Idle /\ hStarted = Idle /\ hStale = Idle

CacheIdle ==
  /\ fileCache = Idle /\ kStore = Idle /\ kPc = Idle /\ kKind = Idle
  /\ kRead = Idle /\ kDone = Idle

PollIdle ==
  /\ handledFailureIds = Idle /\ lastDeploymentStatus = Idle
  /\ dDeployment = Idle /\ dPc = Idle /\ dData = Idle /\ dShown = Idle
  /\ dReported = Idle /\ dStarted = Idle

\* the specifications of server.js and of the page are not running
ServerIdle == HistoryIdle /\ CacheIdle /\ PollIdle

SeqsUpTo(S, n) == UNION {[1..k -> S] : k \in 0..n}

\* the lines a file of the line-patch specification is made of
PatchLineSet == {<<"a">>, <<"b">>}

\* contents of the files: the empty file, and 1..MaxLines lines
PatchContents ==
  {<<>>} \cup {join(ls) : ls \in (SeqsUpTo(PatchLineSet, MaxLines) \ {<<>>})}

\* code of a directive: one line, or two
PatchCodes == {<<"a">>, <<"b">>, <<"b", NL, "a">>}

PatchFile == "a.txt"

\* a validated directive, as validateOperation returns it
Directive(action, file, line, code, content) ==
  [action |-> action, file |-> file, line |-> line, code |-> code,
   content |-> content]

\* directives at every line from 0 to two past the longest file, and the two
\* whose line parseInt could not read
PatchOps ==
  {Directive(a, PatchFile, l, c, <<>>) :
     a \in {"insert", "delete"}, l \in 0..(MaxLines + 2), c \in PatchCodes}
  \cup {Directive(a, PatchFile, NaN, <<"a">>, <<>>) : a \in {"insert", "delete"}}

\* single-line inserts, for the groups one directive longer than MaxGroup
PatchInserts ==
  {Directive("insert", PatchFile, l, <<"b">>, <<>>) :
     l \in (1..(MaxLines + 1)) \cup {NaN}}

PatchGroups ==
  SeqsUpTo(PatchOps, MaxGroup) \cup [1..(MaxGroup + 1) -> PatchInserts]

PatchInit ==
  /\ \E content \in PatchContents : pOrig = split(content)
  /\ pInput \in PatchGroups
  /\ pSorted = <<>>
  /\ pLines = pOrig
  /\ pIdx = 0
  /\ pPrev = pOrig
  /\ pState = "fetched"
  /\ pErr = "none"
  /\ BatchIdle
  /\ CallsIdle
  /\ ExtractIdle
  /\ RaceIdle
  /\ ServerIdle

\* operations.sort((a, b) => ...)
PatchSort ==
  /\ pState = "fetched"
  /\ pSorted' = sort(pInput)
  /\ pState' = "sorted"
  /\ UNCHANGED <<pOrig, pInput, pLines, pIdx, pPrev, pErr, bvars, cvars, evars, rvars, svars>>

\* one pass of the loop: the directive is applied, or throws and ends the loop
PatchApply ==
  /\ pState = "sorted"
  /\ pIdx < Len(pSorted)
  /\ LET r == applyOp(pLines, pSorted[pIdx + 1])
     IN  IF r.ok
           THEN /\ pLines' = r.lines
                /\ pIdx' = pIdx + 1
                /\ pPrev' = pLines
                /\ UNCHANGED <<pState, pErr>>
           ELSE /\ pState' = "thrown"
                /\ pErr' = r.err
                /\ UNCHANGED <<pLines, pIdx, pPrev>>
  /\ UNCHANGED <<pOrig, pInput, pSorted, bvars, cvars, evars, rvars, svars>>

\* const newContent = lines.join('\n')
PatchJoin ==
  /\ pState = "sorted"
  /\ pIdx = Len(pSorted)
  /\ pState' = "joined"
  /\ UNCHANGED <<pOrig, pInput, pSorted, pLines, pIdx, pPrev, pErr, bvars, cvars, evars, rvars, svars>>

PatchNext == PatchSort \/ PatchApply \/ PatchJoin

SpecPatch == PatchInit /\ [][PatchNext]_vars


(***************************************************************************)
(* Properties of the line-patch specification.                              *)
(***************************************************************************)
Numeric(op) == ~IsNaN(op.line)

\* the directive whose application threw
pFailing == pSorted[pIdx + 1]

\* the directive applied last
pLast == pSorted[pIdx]

\* the loop is over: every directive applied, or one threw
pOver == pState \in {"joined", "thrown"}

\* C1: the directives applied so far were applied in non-increasing order of
\* line, a delete before an insert of the same line.
C1_AppliedInDescendingOrder ==
  \A i, j \in 1..pIdx :
    (i < j /\ Numeric(pSorted[i]) /\ Numeric(pSorted[j])) =>
      /\ pSorted[i].line >= pSorted[j].line
      /\ ~(/\ pSorted[i].line = pSorted[j].line
           /\ pSorted[i].action = "insert"
           /\ pSorted[j].action = "delete")

\* C3: an insert at line n + 1 of a sequence of n lines never throws; an
\* insert at line n + 2 or at a line below 1 is never applied, it throws
\* OutOfRange.
C3_InsertRange ==
  /\ (pState = "thrown" /\ pFailing.action = "insert") =>
       /\ pErr = "OutOfRange"
       /\ Numeric(pFailing)
       /\ pFailing.line # Len(pLines) + 1
  /\ (pIdx >= 1 /\ pLast.action = "insert" /\ Numeric(pLast)) =>
       /\ pLast.line # Len(pPrev) + 2
       /\ pLast.line >= 1

\* an insert at the end of a sequence some earlier directive has changed
C3_Witness ==
  /\ pIdx = 2
  /\ pLast.action = "insert"
  /\ pLast.line = Len(pPrev) + 1
  /\ pPrev # pOrig

\* the group is a delete of line L, with the line's content as code, and an
\* insert of one line at L, in either order
IsReplaceGroup(g) ==
  /\ Len(g) = 2
  /\ {g[1].action, g[2].action} = {"insert", "delete"}
  /\ g[1].line = g[2].line
  /\ Numeric(g[1])
  /\ g[1].line \in 1..Len(pOrig)
  /\ \A i \in 1..2 :
       /\ g[i].action = "delete" => g[i].code = pOrig[g[i].line]
       /\ g[i].action = "insert" => Len(split(g[i].code)) = 1

ReplaceNew(g) == IF g[1].action = "insert" THEN g[1].code ELSE g[2].code

\* C4: a delete of line L and an insert of one line at L replace line L and
\* move no other line.
C4_ReplaceLine ==
  (pOver /\ IsReplaceGroup(pInput)) =>
    /\ pState = "joined"
    /\ split(join(pLines)) = [pOrig EXCEPT ![pInput[1].line] = ReplaceNew(pInput)]

\* the insert came first in the batch, and the new line differs from the old
C4_Witness ==
  /\ pState = "joined"
  /\ IsReplaceGroup(pInput)
  /\ pInput[1].action = "insert"
  /\ pInput[1].code # pOrig[pInput[1].line]
  /\ Len(pOrig) >= 2

\* the group is single-line inserts at distinct lines between 1 and n + 1
IsInsertGroup(g) ==
  /\ Len(g) >= 1
  /\ \A i \in 1..Len(g) :
       /\ g[i].action = "insert"
       /\ Numeric(g[i])
       /\ g[i].line \in 1..(Len(pOrig) + 1)
       /\ Len(split(g[i].code)) = 1
  /\ \A i, j \in 1..Len(g) : g[i].line = g[j].line => i = j

\* the lines inserted at line m by the group
InsertedAt(g, m) ==
  IF \E i \in 1..Len(g) : g[i].line = m
    THEN <<(CHOOSE op \in {g[i] : i \in 1..Len(g)} : op.line = m).code>>
    ELSE <<>>

\* every original line from m on, each preceded by what was inserted at its
\* line number, then what was inserted past the end
RECURSIVE InsertedFrom(_, _, _)
InsertedFrom(orig, g, m) ==
  IF m > Len(orig) THEN InsertedAt(g, m)
  ELSE InsertedAt(g, m) \o <<orig[m]>> \o InsertedFrom(orig, g, m + 1)

\* C5: single-line inserts at distinct lines are applied highest line first,
\* all succeed, and each inserted line ends up right before the original
\* line that had its line number.
C5_DistinctInserts ==
  IsInsertGroup(pInput) =>
    /\ pState # "thrown"
    /\ \A i, j \in 1..Len(pSorted) : i < j => pSorted[i].line > pSorted[j].line
    /\ pState = "joined" =>
         /\ Len(pLines) = Len(pOrig) + Len(pInput)
         /\ split(join(pLines)) = InsertedFrom(pOrig, pInput, 1)

\* three inserts given lowest line first, into a file of two lines
C5_Witness ==
  /\ pState = "joined"
  /\ IsInsertGroup(pInput)
  /\ Len(pInput) = 3
  /\ Len(pOrig) = 2
  /\ pInput[1].line < pInput[2].line
  /\ pInput[2].line < pInput[3].line


(***************************************************************************)
(* parseAndExecuteJSON: validation and grouping.                            *)
(* A raw candidate is [action, file, line, code, content]; a field the      *)
(* candidate does not have is Undefined (UndefinedText for code, content).  *)
(* A candidate that is no object at all is one of NonObjects.  A field that *)
(* holds a number where a text is expected is NotAString (action, file) or  *)
(* a text led by the mark "#" (code, content).                              *)
(***************************************************************************)
Undefined == "undefined"
UndefinedText == <<"undefined">>

\* null, and a string, where an object is expected
Null == [type |-> "null"]
NonObjects == {Null, [type |-> "string"]}

\* "!op || typeof op !== 'object'" is false
IsObject(op) == op \notin NonObjects

\* a number where a string is expected
NotAString == "#5"

\* typeof v === 'string'
IsString(v) == v # NotAString /\ v # Undefined

\* String(v): the digits of a number, the text of a text
String(v) == IF Len(v) > 0 /\ v[1] = "#" THEN Tail(v) ELSE v

Candidate(action, file, line, code, content) ==
  [action |-> action, file |-> file, line |-> line, code |-> code,
   content |-> content]

\* String.prototype.toLowerCase leaving the text as it is
toLowerCaseNot(a) == a

\* String.prototype.toLowerCase on the action texts of the model
toLowerCase(a) ==
  CASE a = "INSERT" -> "insert"
    [] a = "Delete" -> "delete"
    [] a = "CREATE" -> "create"
    [] a = "Delete_File" -> "delete_file"
    [] OTHER -> a

\* parseInt on the line texts of the model: NaN unless the text starts with
\* digits
parseInt(t) ==
  CASE t = "1" -> 1
    [] t = "2" -> 2
    [] t = "3" -> 3
    [] t = "4" -> 4
    [] OTHER -> NaN

\* the line and code a directive without them carries in the model
NoLine == NaN
NoText == <<>>

Rejected == [ok |-> FALSE, op |-> Directive("none", "none", NoLine, NoText, NoText)]
Accepted(d) == [ok |-> TRUE, op |-> d]

\* validateOperation taking a create without content for an empty file
validateOperationLoose(op) ==
  IF IsObject(op) /\ op.action = "create" /\ IsString(op.file)
    THEN Accepted(Directive("create", op.file, NoLine, NoText, op.content))
    ELSE Rejected

\* validateOperation: the directive, or Rejected where it throws
validateOperation(op) ==
  IF ~IsObject(op) THEN Rejected
  ELSE IF op.action = Undefined \/ op.action = "" \/ ~IsString(op.action) THEN Rejected
  ELSE IF op.file = Undefined \/ op.file = "" \/ ~IsString(op.file) THEN Rejected
  ELSE
  LET action == toLowerCase(op.action)
  IN  CASE action = "create" ->
             IF op.content = UndefinedText THEN Rejected
             ELSE Accepted(Directive("create", op.file, NoLine, NoText,
                                     String(op.content)))
        [] action = "delete_file" ->
             Accepted(Directive("delete_file", op.file, NoLine, NoText, NoText))
        [] action \in {"insert", "delete"} ->
             IF op.line = Undefined \/ op.code = UndefinedText THEN Rejected
             ELSE Accepted(Directive(action, op.file, parseInt(op.line),
                                     String(op.code), NoText))
        [] OTHER -> Rejected

\* validatedOperations: the candidates validateOperation accepts, in order
RECURSIVE validated(_)
validated(ops) ==
  IF Len(ops) = 0 THEN <<>>
  ELSE LET v == validateOperation(Head(ops))
       IN  (IF v.ok THEN <<v.op>> ELSE <<>>) \o validated(Tail(ops))

IsModify(op) == op.action \in {"insert", "delete"}
IsCreate(op) == op.action = "create"
IsDeleteFile(op) == op.action = "delete_file"

\* keys every object literal inherits: fileOperations[key] is there (and is
\* no array) before anything was stored under it
InheritedKeys == {"constructor"}

\* "fileOperations[op.file].push(op)" throws a TypeError: the file of an
\* insert or delete is an inherited key
pushThrows(op) == IsModify(op) /\ op.file \in InheritedKeys

\* the grouping loop over validatedOperations throws
groupingThrows(ops) ==
  \E i \in 1..Len(validated(ops)) : pushThrows(validated(ops)[i])

\* the directives the grouping loop went through before it threw
RECURSIVE beforeThrow(_)
beforeThrow(vops) ==
  IF Len(vops) = 0 \/ pushThrows(Head(vops)) THEN <<>>
  ELSE <<Head(vops)>> \o beforeThrow(Tail(vops))

\* the create directives, one for each file only
collectCreateMerged(ops) ==
  LET vops == beforeThrow(validated(ops))
      firstOn(i) == IsCreate(vops[i]) /\ \A j \in 1..(i - 1) :
                      ~(IsCreate(vops[j]) /\ vops[j].file = vops[i].file)
      RECURSIVE from(_)
      from(i) == IF i > Len(vops) THEN <<>>
                 ELSE (IF firstOn(i) THEN <<vops[i]>> ELSE <<>>) \o from(i + 1)
  IN  from(1)

\* the three collections the loop over validatedOperations fills
collectDeleteFile(ops) == SelectSeq(beforeThrow(validated(ops)), IsDeleteFile)
collectCreate(ops) == SelectSeq(beforeThrow(validated(ops)), IsCreate)

\* the keys of fileOperations in the order Object.entries gives them: the
\* order in which the files first occur (no path of the model is an integer
\* index)
RECURSIVE firstOccurrences(_, _)
firstOccurrences(ops, seen) ==
  IF Len(ops) = 0 THEN <<>>
  ELSE IF IsModify(Head(ops)) /\ Head(ops).file \notin seen
    THEN <<Head(ops).file>> \o firstOccurrences(Tail(ops), seen \cup {Head(ops).file})
    ELSE firstOccurrences(Tail(ops), seen)

\* fileOperations[f]
groupOf(ops, f) ==
  LET mine(op) == IsModify(op) /\ op.file = f
  IN  SelectSeq(beforeThrow(validated(ops)), mine)

\* Object.entries(fileOperations)
collectFileOperations(ops) ==
  LET files == firstOccurrences(beforeThrow(validated(ops)), {})
  IN  [i \in 1..Len(files) |-> [file |-> files[i], ops |-> groupOf(ops, files[i])]]

(***************************************************************************)
(* The store adapter (github.js) over the store.                            *)
(***************************************************************************)
Paths == {"a.txt", "b.txt", "404.txt", "constructor"}

\* error.message.includes('404') || error.message.includes('Not Found'), for
\* the part of the message that is the path
PathHas404(p) == p = "404.txt"

Absent == [exists |-> FALSE, content |-> <<>>]
File(content) == [exists |-> TRUE, content |-> content]

\* the version tag of a content (a blob sha is a function of the content)
Sha(content) == <<"sha">> \o content
NoSha == <<>>

\* an Error and its message: what was thrown, on which path
Err(kind, path) == [kind |-> kind, path |-> path]
NoErr == Err("none", "none")

\* getFileContent: the 404 of an absent file becomes 'File not found: p
\* (404)', any other failure 'Failed to get file: p (Status: s)'
getFileContent(st, p, fault) ==
  IF fault THEN [ok |-> FALSE, content |-> <<>>, sha |-> NoSha, err |-> Err("getfail", p)]
  ELSE IF st[p].exists
    THEN [ok |-> TRUE, content |-> st[p].content, sha |-> Sha(st[p].content), err |-> NoErr]
    ELSE [ok |-> FALSE, content |-> <<>>, sha |-> NoSha, err |-> Err("notfound", p)]

\* updateFile: PUT with sha; the store takes it when the tag is the file's
updateFile(st, p, content, sha, fault) ==
  IF ~fault /\ st[p].exists /\ Sha(st[p].content) = sha
    THEN [ok |-> TRUE, store |-> [st EXCEPT ![p] = File(content)], err |-> NoErr]
    ELSE [ok |-> FALSE, store |-> st, err |-> Err("updatefail", p)]

\* createFile of github.js: PUT without sha; the store takes it when the
\* path is free
githubCreateFile(st, p, content, fault) ==
  IF ~fault /\ ~st[p].exists
    THEN [ok |-> TRUE, store |-> [st EXCEPT ![p] = File(content)], err |-> NoErr]
    ELSE [ok |-> FALSE, store |-> st, err |-> Err("createfail", p)]

\* deleteFile of github.js: DELETE with sha
githubDeleteFile(st, p, sha, fault) ==
  IF ~fault /\ st[p].exists /\ Sha(st[p].content) = sha
    THEN [ok |-> TRUE, store |-> [st EXCEPT ![p] = Absent], err |-> NoErr]
    ELSE [ok |-> FALSE, store |-> st, err |-> Err("deletefail", p)]

\* a record of the call log: for a get, sha and content are what it returned;
\* for the others, what was sent
Call(op, phase, item, path, sha, content, r) ==
  [op |-> op, phase |-> phase, item |-> item, path |-> path, sha |-> sha,
   content |-> content, ok |-> r.ok, err |-> r.err]

\* a record of results
Result(file, action, success, message, error) ==
  [file |-> file, action |-> action, success |-> success, message |-> message,
   error |-> error]

\* what a handler leaves behind: the store, the calls it made, its result
Outcome(st, cs, r, f) == [store |-> st, calls |-> cs, result |-> r, faulted |-> f]


(***************************************************************************)
(* The three handlers of json-parser.js.  f1, f2, f3 say whether the store  *)
(* fails the handler's first, second, third call.                           *)
(***************************************************************************)
\* deleteFile taking a file that is not there for deleted
deleteFileAbsentOk(st, item, filePath, f1, f2) ==
  LET g == getFileContent(st, filePath, f1)
      c1 == Call("get", "delete_file", item, filePath, g.sha, g.content, g)
  IN  IF ~g.ok
        THEN Outcome(st, <<c1>>,
                     Result(filePath, "delete_file", g.err.kind = "notfound",
                            "none", g.err), f1)
        ELSE
        LET d == githubDeleteFile(st, filePath, g.sha, f2)
            c2 == Call("delete", "delete_file", item, filePath, g.sha, NoText, d)
        IN  Outcome(d.store, <<c1, c2>>,
                    Result(filePath, "delete_file", d.ok, "none", d.err), f1 \/ f2)

\* deleteFile of json-parser.js
deleteFile(st, item, filePath, f1, f2) ==
  LET g == getFileContent(st, filePath, f1)
      c1 == Call("get", "delete_file", item, filePath, g.sha, g.content, g)
  IN  IF ~g.ok
        THEN Outcome(st, <<c1>>,
                     Result(filePath, "delete_file", FALSE, "none", g.err), f1)
        ELSE
        LET d == githubDeleteFile(st, filePath, g.sha, f2)
            c2 == Call("delete", "delete_file", item, filePath, g.sha, NoText, d)
        IN  IF d.ok
              THEN Outcome(d.store, <<c1, c2>>,
                           Result(filePath, "delete_file", TRUE,
                                  "File deleted successfully", NoErr), f1 \/ f2)
              ELSE Outcome(st, <<c1, c2>>,
                           Result(filePath, "delete_file", FALSE, "none", d.err),
                           f1 \/ f2)

\* the loop "for (const op of operations)" of processFileOperations
RECURSIVE applyAll(_, _)
applyAll(lines, ops) ==
  IF Len(ops) = 0 THEN Returned(lines)
  ELSE LET r == applyOp(lines, Head(ops))
       IN  IF r.ok THEN applyAll(r.lines, Tail(ops)) ELSE r

\* the lines as the loop left them when a directive threw
RECURSIVE applyPartial(_, _)
applyPartial(lines, ops) ==
  IF Len(ops) = 0 THEN lines
  ELSE LET r == applyOp(lines, Head(ops))
       IN  IF r.ok THEN applyPartial(r.lines, Tail(ops)) ELSE lines

\* what another writer of the repository puts into a file
OtherContent == <<"z">>

\* the store the write reaches: w says that another writer has replaced the
\* file since the fetch
atWrite(st, filePath, w) ==
  IF w THEN [st EXCEPT ![filePath] = File(OtherContent)] ELSE st

\* processFileOperations writing back what it has when a directive throws
processFileOperationsPartial(st, item, filePath, ops, f1, f2, w) ==
  LET g == getFileContent(st, filePath, f1)
      c1 == Call("get", "modify", item, filePath, g.sha, g.content, g)
  IN  IF ~g.ok
        THEN Outcome(st, <<c1>>, Result(filePath, "modify", FALSE, "none", g.err), f1)
        ELSE
        LET r == applyAll(split(g.content), sort(ops))
            newContent == join(applyPartial(split(g.content), sort(ops)))
            u == updateFile(atWrite(st, filePath, w), filePath, newContent, g.sha, f2)
            c2 == Call("put", "modify", item, filePath, g.sha, newContent, u)
        IN  IF u.ok /\ r.ok
              THEN Outcome(u.store, <<c1, c2>>,
                           Result(filePath, "modify", TRUE, "none", NoErr),
                           f1 \/ f2 \/ w)
              ELSE Outcome(u.store, <<c1, c2>>,
                           Result(filePath, "modify", FALSE, "none",
                                  IF r.ok THEN u.err ELSE Err(r.err, filePath)),
                           f1 \/ f2 \/ w)

\* processFileOperations fetching again and writing again after a write the
\* store rejected
processFileOperationsRetry(st, item, filePath, ops, f1, f2, w) ==
  LET g == getFileContent(st, filePath, f1)
      c1 == Call("get", "modify", item, filePath, g.sha, g.content, g)
      r == applyAll(split(g.content), sort(ops))
  IN  IF ~g.ok \/ ~r.ok
        THEN Outcome(st, <<c1>>,
                     Result(filePath, "modify", FALSE, "none",
                            IF g.ok THEN Err(r.err, filePath) ELSE g.err), f1)
        ELSE
        LET u == updateFile(atWrite(st, filePath, w), filePath, join(r.lines),
                            g.sha, f2)
            c2 == Call("put", "modify", item, filePath, g.sha, join(r.lines), u)
            g2 == getFileContent(u.store, filePath, FALSE)
            c3 == Call("get", "modify", item, filePath, g2.sha, g2.content, g2)
            r2 == applyAll(split(g2.content), sort(ops))
            u2 == updateFile(u.store, filePath, join(r2.lines), g2.sha, FALSE)
            c4 == Call("put", "modify", item, filePath, g2.sha, join(r2.lines), u2)
        IN  IF u.ok
              THEN Outcome(u.store, <<c1, c2>>,
                           Result(filePath, "modify", TRUE, "none", NoErr),
                           f1 \/ f2 \/ w)
              ELSE IF r2.ok
                THEN Outcome(u2.store, <<c1, c2, c3, c4>>,
                             Result(filePath, "modify", TRUE, "none", NoErr),
                             f1 \/ f2 \/ w)
                ELSE Outcome(u.store, <<c1, c2, c3>>,
                             Result(filePath, "modify", FALSE, "none",
                                    Err(r2.err, filePath)), f1 \/ f2 \/ w)

\* processFileOperations, with the catch of its caller
processFileOperations(st, item, filePath, ops, f1, f2, w) ==
  LET g == getFileContent(st, filePath, f1)
      c1 == Call("get", "modify", item, filePath, g.sha, g.content, g)
  IN  IF ~g.ok
        THEN Outcome(st, <<c1>>, Result(filePath, "modify", FALSE, "none", g.err), f1)
        ELSE
        LET r == applyAll(split(g.content), sort(ops))
        IN  IF ~r.ok
              THEN Outcome(st, <<c1>>,
                           Result(filePath, "modify", FALSE, "none",
                                  Err(r.err, filePath)), f1)
              ELSE
              LET newContent == join(r.lines)
                  u == updateFile(atWrite(st, filePath, w), filePath, newContent,
                                  g.sha, f2)
                  c2 == Call("put", "modify", item, filePath, g.sha, newContent, u)
              IN  IF u.ok
                    THEN Outcome(u.store, <<c1, c2>>,
                                 Result(filePath, "modify", TRUE, "none", NoErr),
                                 f1 \/ f2 \/ w)
                    ELSE Outcome(u.store, <<c1, c2>>,
                                 Result(filePath, "modify", FALSE, "none", u.err),
                                 f1 \/ f2 \/ w)

\* the test never recognising a not-found error
includes404Never(e) == FALSE

\* error.message.includes('404') || error.message.includes('Not Found')
includes404(e) == e.kind = "notfound" \/ PathHas404(e.path)

\* the branch "File doesn't exist, create it" of createFile
createAfter(st, item, filePath, content, before, error, f3, fBefore) ==
  IF includes404(error)
    THEN LET c == githubCreateFile(st, filePath, content, f3)
             c3 == Call("create", "create", item, filePath, NoSha, content, c)
         IN  IF c.ok
               THEN Outcome(c.store, before \o <<c3>>,
                            Result(filePath, "create", TRUE,
                                   "File created successfully", NoErr),
                            fBefore \/ f3)
               ELSE Outcome(st, before \o <<c3>>,
                            Result(filePath, "create", FALSE, "none", c.err),
                            fBefore \/ f3)
    ELSE Outcome(st, before, Result(filePath, "create", FALSE, "none", error),
                 fBefore)

\* createFile sending the update without the tag it fetched
createFileNoTag(st, item, filePath, content, f1, f2, f3) ==
  LET g == getFileContent(st, filePath, f1)
      c1 == Call("get", "create", item, filePath, g.sha, g.content, g)
  IN  IF ~g.ok
        THEN createAfter(st, item, filePath, content, <<c1>>, g.err, f3, f1)
        ELSE
        LET u == updateFile(st, filePath, content, NoSha, f2)
            c2 == Call("put", "create", item, filePath, NoSha, content, u)
        IN  IF u.ok
              THEN Outcome(u.store, <<c1, c2>>,
                           Result(filePath, "create", TRUE,
                                  "File updated (already existed)", NoErr),
                           f1 \/ f2)
              ELSE createAfter(st, item, filePath, content, <<c1, c2>>, u.err, f3,
                               f1 \/ f2)

\* createFile of json-parser.js: the inner try holds the fetch and the
\* update, so what either throws reaches the includes('404') test
createFile(st, item, filePath, content, f1, f2, f3) ==
  LET g == getFileContent(st, filePath, f1)
      c1 == Call("get", "create", item, filePath, g.sha, g.content, g)
  IN  IF ~g.ok
        THEN createAfter(st, item, filePath, content, <<c1>>, g.err, f3, f1)
        ELSE
        LET u == updateFile(st, filePath, content, g.sha, f2)
            c2 == Call("put", "create", item, filePath, g.sha, content, u)
        IN  IF u.ok
              THEN Outcome(u.store, <<c1, c2>>,
                           Result(filePath, "create", TRUE,
                                  "File updated (already existed)", NoErr),
                           f1 \/ f2)
              ELSE createAfter(st, item, filePath, content, <<c1, c2>>, u.err, f3,
                               f1 \/ f2)

(***************************************************************************)
(* One run of parseAndExecuteJSON.                                          *)
(***************************************************************************)
\* the candidates a batch is made of
Pool ==
  { Candidate("delete_file", "a.txt", Undefined, UndefinedText, UndefinedText),
    Candidate("delete_file", "b.txt", Undefined, UndefinedText, UndefinedText),
    Candidate("create", "a.txt", Undefined, UndefinedText, <<"x">>),
    Candidate("create", "404.txt", Undefined, UndefinedText, <<"x">>),
    Candidate("insert", "a.txt", "1", <<"y">>, UndefinedText),
    Candidate("insert", "a.txt", "3", <<"y">>, UndefinedText),
    Candidate("delete", "a.txt", "1", <<"x">>, UndefinedText),
    Candidate("insert", "b.txt", "1", <<"y">>, UndefinedText) }

\* the candidates of the longest batches: a delete_file, an insert and a
\* create on one file, a delete_file and an insert on another
Core ==
  { Candidate("delete_file", "a.txt", Undefined, UndefinedText, UndefinedText),
    Candidate("delete_file", "b.txt", Undefined, UndefinedText, UndefinedText),
    Candidate("create", "a.txt", Undefined, UndefinedText, <<"x">>),
    Candidate("insert", "a.txt", "1", <<"y">>, UndefinedText),
    Candidate("insert", "b.txt", "1", <<"y">>, UndefinedText) }

\* every batch shorter than MaxOps, and the batches of MaxOps candidates of
\* Core
Batches == SeqsUpTo(Pool, MaxOps - 1) \cup [1..MaxOps -> Core]

\* candidates validateOperation rejects, and candidates it has to normalise
RawPool ==
  { Null,
    Candidate(Undefined, "a.txt", Undefined, UndefinedText, <<"x">>),
    Candidate(NotAString, "a.txt", Undefined, UndefinedText, <<"x">>),
    Candidate("create", Undefined, Undefined, UndefinedText, <<"x">>),
    Candidate("create", NotAString, Undefined, UndefinedText, <<"x">>),
    Candidate("rename", "a.txt", "1", <<"y">>, <<"x">>),
    Candidate("create", "a.txt", Undefined, UndefinedText, UndefinedText),
    Candidate("create", "a.txt", Undefined, UndefinedText, <<>>),
    Candidate("insert", "a.txt", Undefined, <<"y">>, UndefinedText),
    Candidate("insert", "a.txt", "1", UndefinedText, UndefinedText),
    Candidate("insert", "a.txt", "abc", <<"y">>, UndefinedText),
    Candidate("INSERT", "a.txt", "1", <<"#", "5">>, UndefinedText),
    Candidate("Delete", "a.txt", "1", <<"x">>, UndefinedText),
    Candidate("CREATE", "b.txt", Undefined, UndefinedText, <<"#", "5">>),
    Candidate("Delete_File", "b.txt", Undefined, UndefinedText, UndefinedText),
    Candidate("insert", "constructor", "1", <<"y">>, UndefinedText) }

RawBatches == SeqsUpTo(RawPool, MaxRaw)

\* Array.isArray(operations) or not
Array(items) == [isArray |-> TRUE, items |-> items]
Single(value) == [isArray |-> FALSE, value |-> value]

\* "if (!Array.isArray(operations)) operations = [operations]"
toArray(arg) == IF arg.isArray THEN arg.items ELSE <<arg.value>>

\* what parseAndExecuteJSON is called with
Arguments ==
  {Array(b) : b \in Batches \cup RawBatches}
  \cup {Single(c) : c \in {Null, Candidate("create", "a.txt", Undefined,
                                            UndefinedText, <<"x">>)}}

\* the stores a run starts from: a.txt absent, of one line or of two; b.txt
\* there; 404.txt absent (a create of the batch can bring it into being)
Stores ==
  { [p \in Paths |-> IF p = "a.txt" THEN a ELSE IF p = "b.txt" THEN b ELSE c] :
      a \in {Absent, File(<<"x">>), File(<<"y", NL, "x">>)},
      b \in {File(<<"x">>)},
      c \in {Absent} }

Init ==
  /\ argument \in Arguments
  /\ operations = toArray(argument)
  /\ validatedOperations = validated(operations)
  /\ raised = groupingThrows(operations)
  /\ deleteFileOperations = collectDeleteFile(operations)
  /\ fileOperations = collectFileOperations(operations)
  /\ createOperations = collectCreate(operations)
  /\ store0 \in Stores
  /\ store = store0
  /\ nDel = 0
  /\ nMod = 0
  /\ nCre = 0
  /\ returned = FALSE
  /\ results = <<>>
  /\ calls = <<>>
  /\ faulted = FALSE
  /\ PatchIdle
  /\ CallsIdle
  /\ ExtractIdle
  /\ RaceIdle
  /\ ServerIdle

\* the failures of a handler's second call worth telling apart: none is made
\* after a first call that failed (and a write the store fails anyway is
\* not told apart by what another writer did)
Second(f1) == IF f1 THEN {FALSE} ELSE BOOLEAN

\* a failed handler putting the store back to what the batch began with
TakeRollback(o) ==
  /\ store' = IF o.result.success THEN o.store ELSE store0
  /\ calls' = calls \o o.calls
  /\ results' = Append(results, o.result)
  /\ faulted' = (faulted \/ o.faulted)

\* the handler's outcome becomes the state
Take(o) ==
  /\ store' = o.store
  /\ calls' = calls \o o.calls
  /\ results' = Append(results, o.result)
  /\ faulted' = (faulted \/ o.faulted)

\* loop 1: "for (const op of deleteFileOperations)"
DeleteFileStep ==
  /\ ~returned /\ ~raised
  /\ nDel < Len(deleteFileOperations)
  /\ \E f1 \in BOOLEAN : \E f2 \in Second(f1) :
       Take(deleteFile(store, nDel + 1, deleteFileOperations[nDel + 1].file, f1, f2))
  /\ nDel' = nDel + 1
  /\ UNCHANGED <<batch, store0, nMod, nCre, returned, pvars, cvars, evars, rvars, svars>>

\* loop 2 not waiting for loop 1
ModifyStepEarly ==
  /\ ~returned /\ ~raised
  /\ nMod < Len(fileOperations)
  /\ \E f1 \in BOOLEAN : \E f2 \in Second(f1) : \E w \in Second(f1 \/ f2) :
       LET entry == fileOperations[nMod + 1]
       IN  Take(processFileOperations(store, nMod + 1, entry.file, entry.ops,
                                      f1, f2, w))
  /\ nMod' = nMod + 1
  /\ UNCHANGED <<batch, store0, nDel, nCre, returned, pvars, cvars, evars, rvars, svars>>

\* loop 2: "for (const [filePath, ops] of Object.entries(fileOperations))"
ModifyStep ==
  /\ ~returned /\ ~raised
  /\ nDel = Len(deleteFileOperations)
  /\ nMod < Len(fileOperations)
  /\ \E f1 \in BOOLEAN : \E f2 \in Second(f1) : \E w \in Second(f1 \/ f2) :
       LET entry == fileOperations[nMod + 1]
       IN  Take(processFileOperations(store, nMod + 1, entry.file, entry.ops,
                                      f1, f2, w))
  /\ nMod' = nMod + 1
  /\ UNCHANGED <<batch, store0, nDel, nCre, returned, pvars, cvars, evars, rvars, svars>>

\* loop 3 not waiting for loop 2
CreateStepEarly ==
  /\ ~returned /\ ~raised
  /\ nDel = Len(deleteFileOperations)
  /\ nCre < Len(createOperations)
  /\ \E f1, f3 \in BOOLEAN : \E f2 \in Second(f1) :
       LET op == createOperations[nCre + 1]
       IN  Take(createFile(store, nCre + 1, op.file, op.content, f1, f2, f3))
  /\ nCre' = nCre + 1
  /\ UNCHANGED <<batch, store0, nDel, nMod, returned, pvars, cvars, evars, rvars, svars>>

\* loop 3: "for (const op of createOperations)"
CreateStep ==
  /\ ~returned /\ ~raised
  /\ nDel = Len(deleteFileOperations)
  /\ nMod = Len(fileOperations)
  /\ nCre < Len(createOperations)
  /\ \E f1, f3 \in BOOLEAN : \E f2 \in Second(f1) :
       LET op == createOperations[nCre + 1]
       IN  Take(createFile(store, nCre + 1, op.file, op.content, f1, f2, f3))
  /\ nCre' = nCre + 1
  /\ UNCHANGED <<batch, store0, nDel, nMod, returned, pvars, cvars, evars, rvars, svars>>

\* "return results"
Return ==
  /\ ~returned /\ ~raised
  /\ nDel = Len(deleteFileOperations)
  /\ nMod = Len(fileOperations)
  /\ nCre = Len(createOperations)
  /\ returned' = TRUE
  /\ UNCHANGED <<batch, store0, store, nDel, nMod, nCre, results, calls,
                 faulted, pvars, cvars, evars, rvars, svars>>

Next == DeleteFileStep \/ ModifyStep \/ CreateStep \/ Return

Spec == Init /\ [][Next]_vars

(***************************************************************************)
(* The store calls of one run, one by one.  Every call is awaited: the run  *)
(* is at one place (cPc), and it goes on only when the call it waits for    *)
(* has settled.  Contents are left out: whether a fetch, a patch or a write *)
(* succeeds is chosen freely.                                               *)
(***************************************************************************)
Handler(phase, file) == [phase |-> phase, file |-> file]

\* the handlers the three loops call for a batch
handlersOf(ops) ==
  LET d == collectDeleteFile(ops)
      m == collectFileOperations(ops)
      c == collectCreate(ops)
  IN  [i \in 1..Len(d) |-> Handler("delete_file", d[i].file)]
      \o [i \in 1..Len(m) |-> Handler("modify", m[i].file)]
      \o [i \in 1..Len(c) |-> Handler("create", c[i].file)]

CallBatches == SeqsUpTo(Pool, MaxCalls)

\* a call on the store adapter, made by handler number item
StoreCall(item, op, path) == [item |-> item, op |-> op, path |-> path]

CallsInit ==
  /\ \E b \in CallBatches : cHandlers = handlersOf(b)
  /\ cItem = 0
  /\ cPc = "loop"
  /\ cOutstanding = {}
  /\ cErr = NoErr
  /\ cIssued = <<>>
  /\ PatchIdle
  /\ BatchIdle
  /\ ExtractIdle
  /\ RaceIdle
  /\ ServerIdle

\* a call leaves
Issue(c) ==
  /\ cOutstanding' = cOutstanding \cup {c}
  /\ cIssued' = Append(cIssued, c)

\* a call comes back
Settle(c) ==
  /\ c \in cOutstanding
  /\ cOutstanding' = cOutstanding \ {c}
  /\ UNCHANGED cIssued

\* a loop calling its next handler without waiting for the one running
IssueFetchNoAwait ==
  /\ cPc # "returned"
  /\ cItem < Len(cHandlers)
  /\ cItem' = cItem + 1
  /\ Issue(StoreCall(cItem + 1, "get", cHandlers[cItem + 1].file))
  /\ cPc' = "awaitFetch"
  /\ cErr' = NoErr
  /\ UNCHANGED <<cHandlers, pvars, bvars, evars, rvars, svars>>

\* a loop calls its next handler, whose first statement is
\* "await github.getFileContent(filePath)"
IssueFetch ==
  /\ cPc = "loop"
  /\ cItem < Len(cHandlers)
  /\ cItem' = cItem + 1
  /\ Issue(StoreCall(cItem + 1, "get", cHandlers[cItem + 1].file))
  /\ cPc' = "awaitFetch"
  /\ cErr' = NoErr
  /\ UNCHANGED <<cHandlers, pvars, bvars, evars, rvars, svars>>

\* the fetch settles: the handler goes on, or createFile catches the error,
\* or the handler ends with a failed result
FetchSettles ==
  /\ cPc = "awaitFetch"
  /\ Settle(StoreCall(cItem, "get", cHandlers[cItem].file))
  /\ \E outcome \in {"ok", "notfound", "getfail"} :
       IF outcome = "ok"
         THEN cPc' = "fetched" /\ UNCHANGED cErr
         ELSE IF cHandlers[cItem].phase = "create"
           THEN cPc' = "caught" /\ cErr' = Err(outcome, cHandlers[cItem].file)
           ELSE cPc' = "loop" /\ UNCHANGED cErr
  /\ UNCHANGED <<cHandlers, cItem, pvars, bvars, evars, rvars, svars>>

\* after the fetch: deleteFile calls github.deleteFile, createFile calls
\* github.updateFile, processFileOperations patches the lines and, unless a
\* directive threw, calls github.updateFile
IssueWrite ==
  /\ cPc = "fetched"
  /\ \E patched \in BOOLEAN :
       IF cHandlers[cItem].phase = "modify" /\ ~patched
         THEN cPc' = "loop" /\ UNCHANGED <<cOutstanding, cIssued>>
         ELSE /\ Issue(StoreCall(cItem,
                                 IF cHandlers[cItem].phase = "delete_file"
                                   THEN "delete" ELSE "put",
                                 cHandlers[cItem].file))
              /\ cPc' = "awaitWrite"
  /\ UNCHANGED <<cHandlers, cItem, cErr, pvars, bvars, evars, rvars, svars>>

\* the write settles: the handler ends, or createFile catches the error
WriteSettles ==
  /\ cPc = "awaitWrite"
  /\ \E op \in {"put", "delete"} : Settle(StoreCall(cItem, op, cHandlers[cItem].file))
  /\ \E ok \in BOOLEAN :
       IF ~ok /\ cHandlers[cItem].phase = "create"
         THEN cPc' = "caught" /\ cErr' = Err("updatefail", cHandlers[cItem].file)
         ELSE cPc' = "loop" /\ UNCHANGED cErr
  /\ UNCHANGED <<cHandlers, cItem, pvars, bvars, evars, rvars, svars>>

\* the catch of createFile: "await github.createFile" when the message
\* has '404' in it, a failed result otherwise
CatchCreate ==
  /\ cPc = "caught"
  /\ IF includes404(cErr)
       THEN /\ Issue(StoreCall(cItem, "create", cHandlers[cItem].file))
            /\ cPc' = "awaitCreate"
       ELSE cPc' = "loop" /\ UNCHANGED <<cOutstanding, cIssued>>
  /\ UNCHANGED <<cHandlers, cItem, cErr, pvars, bvars, evars, rvars, svars>>

\* the create call settles
CreateSettles ==
  /\ cPc = "awaitCreate"
  /\ Settle(StoreCall(cItem, "create", cHandlers[cItem].file))
  /\ cPc' = "loop"
  /\ UNCHANGED <<cHandlers, cItem, cErr, pvars, bvars, evars, rvars, svars>>

\* "return results"
CallsReturn ==
  /\ cPc = "loop"
  /\ cItem = Len(cHandlers)
  /\ cPc' = "returned"
  /\ UNCHANGED <<cHandlers, cItem, cOutstanding, cErr, cIssued, pvars, bvars, evars, rvars, svars>>

CallsNext ==
  \/ IssueFetch \/ FetchSettles \/ IssueWrite \/ WriteSettles \/ CatchCreate
  \/ CreateSettles \/ CallsReturn

SpecCalls == CallsInit /\ [][CallsNext]_vars


(***************************************************************************)
(* Properties of one run of parseAndExecuteJSON.                            *)
(***************************************************************************)
Indices(q) == 1..Len(q)

\* the calls handler number item of a phase made, in order
CallsOf(phase, item) ==
  LET mine(c) == c.phase = phase /\ c.item = item
  IN  SelectSeq(calls, mine)

\* the puts and creates among a sequence of calls
Puts(cs) == LET isPut(c) == c.op = "put" IN SelectSeq(cs, isPut)
Creates(cs) == LET isCreate(c) == c.op = "create" IN SelectSeq(cs, isCreate)

\* the results of the modify groups and of the create directives handled
ModifyResult(m) == results[Len(deleteFileOperations) + m]
CreateResult(k) == results[Len(deleteFileOperations) + Len(fileOperations) + k]

\* a directive of group m threw: line out of range, or code not matching
DirectiveFailed(m) ==
  /\ ~ModifyResult(m).success
  /\ ModifyResult(m).error.kind \in {"OutOfRange", "ContentMismatch"}

\* the entries of results about a file
EntriesFor(f) == {i \in Indices(results) : results[i].file = f}

\* C2 as stated: when a directive of a group fails, the group writes nothing,
\* the file is after the batch what it was before it, and results holds
\* exactly one failed entry for the file.
C2_FailedGroupLeavesFileAsBeforeBatch ==
  returned =>
    \A m \in 1..nMod :
      DirectiveFailed(m) =>
        LET f == fileOperations[m].file
        IN  /\ Puts(CallsOf("modify", m)) = <<>>
            /\ store[f] = store0[f]
            /\ Cardinality({i \in EntriesFor(f) : ~results[i].success}) = 1

\* C2 amended: when a directive of a group fails, the group writes nothing;
\* the file stays what it was before the batch unless a create directive of
\* the batch targets it; results holds exactly one modify entry for the file,
\* and it has success = false.
C2_FailedGroupWritesNothing ==
  \A m \in 1..nMod :
    DirectiveFailed(m) =>
      LET f == fileOperations[m].file
      IN  /\ Puts(CallsOf("modify", m)) = <<>>
          /\ (\A k \in Indices(createOperations) : createOperations[k].file # f)
               => store[f] = store0[f]
          /\ {i \in EntriesFor(f) : results[i].action = "modify"}
               = {Len(deleteFileOperations) + m}

\* a group failed on its second directive after its first had changed the
\* lines, and no create directive targets the file
C2_Witness ==
  /\ returned
  /\ \E m \in 1..nMod :
       /\ DirectiveFailed(m)
       /\ Len(fileOperations[m].ops) = 2
       /\ applyOp(split(store0[fileOperations[m].file].content),
                  sort(fileOperations[m].ops)[1]).ok
       /\ \A k \in Indices(createOperations) :
            createOperations[k].file # fileOperations[m].file

PhaseRank(ph) ==
  CASE ph = "delete_file" -> 1
    [] ph = "modify" -> 2
    [] ph = "create" -> 3

\* C6: the store calls are made in three phases, every delete_file handled
\* before the first group is fetched and every group before the first create;
\* results has the same order.
C6_ThreePhases ==
  /\ \A i \in 1..(Len(calls) - 1) :
       PhaseRank(calls[i].phase) <= PhaseRank(calls[i + 1].phase)
  /\ \A i \in 1..(Len(results) - 1) :
       PhaseRank(results[i].action) <= PhaseRank(results[i + 1].action)
  /\ (\E i \in Indices(calls) : calls[i].phase \in {"modify", "create"})
       => nDel = Len(deleteFileOperations)
  /\ (\E i \in Indices(calls) : calls[i].phase = "create")
       => nMod = Len(fileOperations)
  /\ \A i \in Indices(calls) :
       /\ calls[i].phase = "delete_file" => calls[i].item <= nDel
       /\ calls[i].phase = "modify" => calls[i].item <= nMod
       /\ calls[i].phase = "create" => calls[i].item <= nCre

\* a batch given in the order create, insert, delete_file, all three handled
C6_Witness ==
  /\ returned
  /\ Len(operations) = 3
  /\ operations[1].action = "create"
  /\ operations[2].action = "insert"
  /\ operations[3].action = "delete_file"
  /\ \A ph \in {"delete_file", "modify", "create"} :
       \E i \in Indices(calls) : calls[i].phase = ph /\ calls[i].ok

\* C7 (on a group whose lines are all integers): every delete directive
\* applied so far was applied before every insert directive applied so far.
C7_DeletesBeforeInserts ==
  (\A i \in Indices(pInput) : Numeric(pInput[i])) =>
    \A i, j \in 1..pIdx :
      i < j => ~(pSorted[i].action = "insert" /\ pSorted[j].action = "delete")

C8Batch ==
  << Candidate("delete_file", "b.txt", Undefined, UndefinedText, UndefinedText),
     Candidate("create", "a.txt", Undefined, UndefinedText, <<"x">>),
     Candidate("insert", "a.txt", "1", <<"y">>, UndefinedText) >>

C8Scenario ==
  /\ operations = C8Batch
  /\ store0["b.txt"].exists
  /\ ~store0["a.txt"].exists
  /\ ~faulted

CallShape(c) == <<c.op, c.phase, c.path, c.ok>>

\* C8: delete_file b.txt, create a.txt, insert into a.txt, with b.txt there
\* and a.txt not: b.txt is deleted first, the group of a.txt fails not-found
\* and writes nothing, a.txt is created with content x; three results, one
\* failed.
C8_Scenario ==
  (returned /\ C8Scenario) =>
    /\ results =
         << Result("b.txt", "delete_file", TRUE, "File deleted successfully", NoErr),
            Result("a.txt", "modify", FALSE, "none", Err("notfound", "a.txt")),
            Result("a.txt", "create", TRUE, "File created successfully", NoErr) >>
    /\ [i \in Indices(calls) |-> CallShape(calls[i])] =
         << <<"get", "delete_file", "b.txt", TRUE>>,
            <<"delete", "delete_file", "b.txt", TRUE>>,
            <<"get", "modify", "a.txt", FALSE>>,
            <<"get", "create", "a.txt", FALSE>>,
            <<"create", "create", "a.txt", TRUE>> >>
    /\ store["b.txt"] = Absent
    /\ store["a.txt"] = File(<<"x">>)

C8_Witness == returned /\ C8Scenario /\ Len(results) = 3

\* the create directives on a path
CreatesOn(f) == {k \in Indices(createOperations) : createOperations[k].file = f}

\* C9: when the group of a path and the create directives on the path all
\* succeed, the path holds the create's content after the batch, and the
\* first create sent the tag of the content the group wrote.
C9_CreateOverwritesPatch ==
  returned =>
    \A m \in Indices(fileOperations) :
      LET f == fileOperations[m].file
          ks == CreatesOn(f)
      IN  (/\ ModifyResult(m).success
           /\ ks # {}
           /\ \A k \in ks : CreateResult(k).success) =>
            LET first == CHOOSE k \in ks : \A k2 \in ks : k <= k2
                last == CHOOSE k \in ks : \A k2 \in ks : k2 <= k
                written == Puts(CallsOf("modify", m))[1].content
            IN  /\ store[f] = File(createOperations[last].content)
                /\ Puts(CallsOf("create", first))[1].sha = Sha(written)
                /\ Puts(CallsOf("create", first))[1].content
                     = createOperations[first].content

\* the group changed the file, and the create put back other content
C9_Witness ==
  /\ returned
  /\ \E m \in Indices(fileOperations) :
       /\ ModifyResult(m).success
       /\ CreatesOn(fileOperations[m].file) # {}
       /\ \A k \in CreatesOn(fileOperations[m].file) : CreateResult(k).success
       /\ Puts(CallsOf("modify", m))[1].content
            # store0[fileOperations[m].file].content
       /\ Puts(CallsOf("modify", m))[1].content
            # store[fileOperations[m].file].content

\* the fetch of create directive k
CreateFetch(k) == CallsOf("create", k)[1]

C11_OtherFetchFailureNeverCreates ==
  \A k \in 1..nCre :
    (~CreateFetch(k).ok /\ CreateFetch(k).err.kind # "notfound") =>
      /\ Creates(CallsOf("create", k)) = <<>>
      /\ Puts(CallsOf("create", k)) = <<>>
      /\ ~CreateResult(k).success

\* the calls and the result of delete_file directive k
DeleteResult(k) == results[k]
Deletes(cs) == LET isDelete(c) == c.op = "delete" IN SelectSeq(cs, isDelete)

\* C12: a delete_file directive whose fetch fails, not-found included, makes
\* no delete call and has success = false; one whose fetch succeeds makes
\* exactly one delete call, with the tag the fetch returned.
C12_DeleteFileFetchFirst ==
  \A k \in 1..nDel :
    LET cs == CallsOf("delete_file", k)
        f == deleteFileOperations[k].file
    IN  /\ cs[1].op = "get" /\ cs[1].path = f
        /\ ~cs[1].ok =>
             /\ Len(cs) = 1
             /\ ~DeleteResult(k).success
             /\ DeleteResult(k).error = cs[1].err
        /\ cs[1].ok =>
             /\ Len(cs) = 2
             /\ Len(Deletes(cs)) = 1
             /\ cs[2].op = "delete" /\ cs[2].path = f
             /\ cs[2].sha = cs[1].sha
             /\ cs[2].sha = Sha(cs[1].content)
             /\ DeleteResult(k).success = cs[2].ok
        /\ DeleteResult(k).file = f
        /\ DeleteResult(k).action = "delete_file"

\* one delete_file found its file and deleted it, the next one on the same
\* path found nothing and failed
C12_Witness ==
  /\ returned
  /\ \E k1, k2 \in 1..nDel :
       /\ k1 < k2
       /\ deleteFileOperations[k1].file = deleteFileOperations[k2].file
       /\ DeleteResult(k1).success
       /\ Len(CallsOf("delete_file", k1)) = 2
       /\ ~DeleteResult(k2).success
       /\ DeleteResult(k2).error.kind = "notfound"
       /\ Len(CallsOf("delete_file", k2)) = 1


\* the fetches among a sequence of calls
Gets(cs) == LET isGet(c) == c.op = "get" IN SelectSeq(cs, isGet)

\* C13: a group makes exactly one fetch and at most one write, the write
\* after the fetch and with its tag; when the store rejects the write (the
\* tag is stale) the group's result has success = false and nothing follows.
C13_StaleWriteNotRetried ==
  \A m \in 1..nMod :
    LET cs == CallsOf("modify", m)
    IN  /\ Len(Gets(cs)) = 1
        /\ Len(Puts(cs)) <= 1
        /\ cs[1].op = "get"
        /\ Len(cs) = 1 + Len(Puts(cs))
        /\ Puts(cs) # <<>> =>
             /\ cs[2].sha = cs[1].sha
             /\ ModifyResult(m).success = cs[2].ok
             /\ ~cs[2].ok => ModifyResult(m).error = cs[2].err

\* another writer replaced the file between a group's fetch and its write:
\* the write was rejected and the file holds the other writer's content
C13_Witness ==
  /\ returned
  /\ \E m \in 1..nMod :
       LET cs == CallsOf("modify", m)
       IN  /\ Len(cs) = 2
           /\ ~cs[2].ok
           /\ cs[1].content # OtherContent
           /\ store[fileOperations[m].file] = File(OtherContent)
           /\ ~ModifyResult(m).success


\* the run is over: results were returned, or the call was rejected
Ended == returned \/ raised

\* the valid directives with an action, and those on a file as well
Valid(a) == {i \in Indices(validatedOperations) : validatedOperations[i].action = a}
ValidOn(a, f) == {i \in Valid(a) : validatedOperations[i].file = f}

\* the files valid insert and delete directives target
ModifiedFiles ==
  {validatedOperations[i].file : i \in Valid("insert") \cup Valid("delete")}

\* the handlers of a phase that made a call
Attempted(phase) ==
  {calls[i].item : i \in {j \in Indices(calls) : calls[j].phase = phase}}

\* C14: when the run is over, every valid delete_file directive, every file
\* group and every valid create directive was attempted exactly once (one
\* fetch each) and has its own result, whatever failed on the way.
C14_EveryDirectiveAttempted ==
  Ended =>
    /\ Cardinality(Attempted("delete_file")) = Cardinality(Valid("delete_file"))
    /\ Cardinality(Attempted("modify")) = Cardinality(ModifiedFiles)
    /\ Cardinality(Attempted("create")) = Cardinality(Valid("create"))
    /\ \A ph \in {"delete_file", "modify", "create"} :
         \A k \in Attempted(ph) : Len(Gets(CallsOf(ph, k))) = 1
    /\ Len(results) = Cardinality(Valid("delete_file"))
                        + Cardinality(ModifiedFiles) + Cardinality(Valid("create"))

\* the entries of results about a file with an action
Entries(f, a) ==
  {i \in Indices(results) : results[i].file = f /\ results[i].action = a}

\* C15: the list returned has one entry for each valid delete_file directive,
\* one for each file valid insert/delete directives target and one for each
\* valid create directive, each with file, action and success; entries for
\* the same file are not merged; no valid directive gives the empty list.
C15_OneResultPerGroup ==
  returned =>
    /\ Len(results) = Cardinality(Valid("delete_file"))
                        + Cardinality(ModifiedFiles) + Cardinality(Valid("create"))
    /\ \A i \in Indices(results) :
         LET f == results[i].file
             a == results[i].action
         IN  IF a = "modify"
               THEN f \in ModifiedFiles /\ Entries(f, a) = {i}
               ELSE Cardinality(Entries(f, a)) = Cardinality(ValidOn(a, f))
    /\ \A i \in Indices(results) :
         /\ results[i].file \in Paths
         /\ results[i].action \in {"delete_file", "modify", "create"}
         /\ results[i].success \in BOOLEAN
    /\ validatedOperations = <<>> => results = <<>>

\* two create directives on one file, each with its own entry, one of them
\* failed and the other not
C15_Witness ==
  /\ returned
  /\ \E i, j \in Indices(results) :
       /\ i < j
       /\ results[i].file = results[j].file
       /\ results[i].action = "create" /\ results[j].action = "create"
       /\ results[i].success # results[j].success

\* C15, second case: a batch of candidates that are all invalid returned the
\* empty list
C15_WitnessEmpty ==
  returned /\ Len(operations) = 2 /\ validatedOperations = <<>> /\ results = <<>>


\* an insert or delete candidate whose line is no number
NonNumericLine(c) ==
  /\ IsObject(c)
  /\ c.action \in {"insert", "INSERT", "delete", "Delete"}
  /\ c.line \notin {"1", "2", "3", "4"}

\* C16: an insert or delete candidate whose line is not numeric is rejected:
\* no valid directive has such a line, and a batch of such candidates makes
\* no store call and changes no file.
C16_NonNumericLineRejected ==
  /\ \A i \in Indices(validatedOperations) :
       IsModify(validatedOperations[i]) => ~IsNaN(validatedOperations[i].line)
  /\ (\A i \in Indices(operations) : NonNumericLine(operations[i])) =>
       calls = <<>> /\ store = store0

\* the actions of the claim, in the letter cases of the model
AnyCase(a) ==
  CASE a = "create" -> {"create", "CREATE"}
    [] a = "delete_file" -> {"delete_file", "Delete_File"}
    [] a = "insert" -> {"insert", "INSERT"}
    [] a = "delete" -> {"delete", "Delete"}

\* the candidates C17 lists
MustReject(c) ==
  \/ ~IsObject(c)
  \/ c.file \in {Undefined, NotAString}
  \/ c.action \in {Undefined, NotAString}
  \/ c.action \notin UNION {AnyCase(a) : a \in {"create", "delete_file", "insert", "delete"}}
  \/ c.action \in AnyCase("create") /\ c.content = UndefinedText
  \/ /\ c.action \in AnyCase("insert") \cup AnyCase("delete")
     /\ (c.line = Undefined \/ c.code = UndefinedText)

\* a text, not a number
IsText(v) == Len(v) = 0 \/ v[1] # "#"

\* C17: validateOperation rejects every candidate of the list; rejected
\* candidates make no store call and no entry of results; code and content
\* of an accepted candidate are strings; a create with empty content is
\* accepted.  (What validation gives is fixed before the first call is made,
\* so it is looked at in the states without calls.)
C17_ValidationRejects ==
  /\ calls = <<>> =>
       /\ \A i \in Indices(operations) :
            LET c == operations[i]
            IN  /\ MustReject(c) => ~validateOperation(c).ok
                /\ (~MustReject(c) /\ c.action \in AnyCase("create")
                      /\ c.content = <<>>)
                     => /\ validateOperation(c).ok
                        /\ validateOperation(c).op.content = <<>>
       /\ Len(validatedOperations)
            <= Cardinality({i \in Indices(operations) : ~MustReject(operations[i])})
       /\ \A i \in Indices(validatedOperations) :
            /\ IsText(validatedOperations[i].code)
            /\ IsText(validatedOperations[i].content)
  /\ Len(results) <= Len(validatedOperations)
  /\ validatedOperations = <<>> => calls = <<>> /\ results = <<>> /\ store = store0

\* a rejected candidate and a create whose content is a number: one entry,
\* and the file holds the number's digits
C17_Witness ==
  /\ returned
  /\ Len(operations) = 2
  /\ MustReject(operations[1])
  /\ ~MustReject(operations[2])
  /\ operations[2].action = "CREATE"
  /\ ~IsText(operations[2].content)
  /\ Len(results) = 1
  /\ results[1].success
  /\ store[operations[2].file] = File(<<"5">>)

\* the lower-case form of an action of the model
LowerCase(a) ==
  CASE a \in AnyCase("create") -> "create"
    [] a \in AnyCase("delete_file") -> "delete_file"
    [] a \in AnyCase("insert") -> "insert"
    [] a \in AnyCase("delete") -> "delete"
    [] OTHER -> a

\* the candidate with its action in lower case
Lowered(c) ==
  IF IsObject(c) /\ IsString(c.action)
    THEN [c EXCEPT !.action = LowerCase(c.action)]
    ELSE c

\* C18: a candidate whose action is create, delete_file, insert or delete in
\* another letter case is accepted as its lower-case form is, and the three
\* collections are the ones the batch in lower case gives (they are filled
\* before the first handler runs and never change).
C18_ActionCaseInsensitive ==
  calls = <<>> =>
    /\ \A i \in Indices(operations) :
         LET c == operations[i]
         IN  (IsObject(c) /\ c.action \in {"CREATE", "Delete_File", "INSERT", "Delete"}
                /\ ~MustReject(c)) =>
               /\ validateOperation(c).ok
               /\ validateOperation(c).op.action = LowerCase(c.action)
               /\ validateOperation(c) = validateOperation(Lowered(c))
    /\ \A i \in Indices(validatedOperations) :
         validatedOperations[i].action \in {"create", "delete_file", "insert", "delete"}
    /\ LET lower == [i \in Indices(operations) |-> Lowered(operations[i])]
       IN  /\ deleteFileOperations = collectDeleteFile(lower)
           /\ fileOperations = collectFileOperations(lower)
           /\ createOperations = collectCreate(lower)

\* INSERT and Delete at the same line, the insert first in the batch: the
\* delete was applied first, so the line was replaced
C18_Witness ==
  /\ returned
  /\ Len(operations) = 2
  /\ IsObject(operations[1]) /\ IsObject(operations[2])
  /\ operations[1].action = "INSERT"
  /\ operations[2].action = "Delete"
  /\ operations[1].line = operations[2].line
  /\ store0["a.txt"] = File(<<"x">>)
  /\ store["a.txt"] = File(<<"5">>)
  /\ results[1].success

\* C19: parseAndExecuteJSON never rejects, and what it returns has no entry
\* for a candidate validation rejected.
C19_NeverRaises ==
  /\ ~raised
  /\ returned => Len(results) <= Len(validatedOperations)


(***************************************************************************)
(* Properties of the store calls followed one by one.                       *)
(***************************************************************************)
\* C20: no two store calls of a batch are outstanding at the same time; the
\* call outstanding is the one the running handler made last, so no other
\* call of the batch falls between a handler's fetch and its write.
C20_OneCallAtATime ==
  /\ Cardinality(cOutstanding) <= 1
  /\ \A c \in cOutstanding :
       /\ c.item = cItem
       /\ c = cIssued[Len(cIssued)]
  /\ \A i, j \in 1..Len(cIssued) : i < j => cIssued[i].item <= cIssued[j].item
  /\ cPc \in {"loop", "fetched", "caught", "returned"} => cOutstanding = {}

\* the second handler's write is outstanding, on the file the first handler
\* worked on
C20_Witness ==
  /\ cPc = "awaitWrite"
  /\ cItem = 2
  /\ cHandlers[1].file = cHandlers[2].file
  /\ cOutstanding = {StoreCall(2, "put", cHandlers[2].file)}
  /\ Len(cIssued) = 4

(***************************************************************************)
(* The directive extractor (server.js).  A text is a sequence of            *)
(* characters; positions are counted from 1, lastIndex from 0 as in the     *)
(* code.                                                                    *)
(***************************************************************************)
TAB == "\t"
QUOTE == "\""
APOS == "'"
BACKSLASH == "\\"
TICK == "tick"

\* \s of the regular expressions, and the white space of JSON and trim()
WhiteSpace == {" ", NL, TAB}

\* [a-zA-Z0-9_]
WordChars ==
  {"a", "b", "c", "d", "e", "f", "g", "h", "i", "j", "k", "l", "m", "n", "o",
   "p", "q", "r", "s", "t", "u", "v", "w", "x", "y", "z",
   "A", "B", "C", "D", "E", "F", "G", "H", "I", "J", "K", "L", "M", "N", "O",
   "P", "Q", "R", "S", "T", "U", "V", "W", "X", "Y", "Z",
   "0", "1", "2", "3", "4", "5", "6", "7", "8", "9", "_"}

Digits == {"0", "1", "2", "3", "4", "5", "6", "7", "8", "9"}

\* the text s has the word w at position i
startsWith(s, i, w) ==
  /\ i >= 1
  /\ i + Len(w) - 1 <= Len(s)
  /\ \A k \in 1..Len(w) : s[i + k - 1] = w[k]

\* \s* from position i: the position of the first character that is not
\* white space
RECURSIVE skipSpace(_, _)
skipSpace(s, i) ==
  IF i <= Len(s) /\ s[i] \in WhiteSpace THEN skipSpace(s, i + 1) ELSE i

\* the least and the greatest of a set of positions that is not empty
least(S) == CHOOSE x \in S : \A y \in S : x <= y
greatest(S) == CHOOSE x \in S : \A y \in S : x >= y

\* the first position from i on where s has w; 0 when there is none
indexOf(s, w, i) ==
  LET at == {k \in i..(Len(s) - Len(w) + 1) : startsWith(s, k, w)}
  IN  IF at = {} THEN 0 ELSE least(at)

\* the last position from i on where s has w; 0 when there is none
lastIndexOf(s, w, i) ==
  LET at == {k \in i..(Len(s) - Len(w) + 1) : startsWith(s, k, w)}
  IN  IF at = {} THEN 0 ELSE greatest(at)

\* the result of RegExp.prototype.exec: match[0] is whole, match[1] is group
\* (empty when the pattern has no group), next is the new lastIndex
NoMatch == [found |-> FALSE, whole |-> <<>>, group |-> <<>>, next |-> 0]
Match(s, first, last, g) ==
  [found |-> TRUE, whole |-> SubSeq(s, first, last), group |-> g, next |-> last]

FenceJson == <<TICK, TICK, TICK, "j", "s", "o", "n">>
Fence == <<TICK, TICK, TICK>>

\* /```json\s*([\s\S]*?)```/g and /```\s*([\s\S]*?)```/g from lastIndex: the
\* first opening fence, the white space after it, and the shortest text up
\* to a closing fence
execFenced(open, s, from) ==
  LET i == indexOf(s, open, from + 1)
      c == skipSpace(s, i + Len(open))
      j == indexOf(s, Fence, c)
  IN  IF i = 0 \/ j = 0 THEN NoMatch
      ELSE Match(s, i, j + 2, SubSeq(s, c, j - 1))

\* the first "}" from e on that is followed by \s*\]; 0 when there is none
closeOfArray(s, e) ==
  LET at == {k \in e..Len(s) : /\ s[k] = "}"
                               /\ skipSpace(s, k + 1) <= Len(s)
                               /\ s[skipSpace(s, k + 1)] = "]"}
  IN  IF at = {} THEN 0 ELSE least(at)

\* \[\s*\{ at position i: the position of the brace; 0 when it is not there
openOfArray(s, i) ==
  IF s[i] = "[" /\ skipSpace(s, i + 1) <= Len(s) /\ s[skipSpace(s, i + 1)] = "{"
    THEN skipSpace(s, i + 1) ELSE 0

\* /\[\s*\{[\s\S]*?\}\s*\]/g from lastIndex: the first position the pattern
\* matches at, and from there the shortest text up to a "}" that \s*\] follows
execArray(s, from) ==
  LET at == {i \in (from + 1)..Len(s) :
               openOfArray(s, i) # 0 /\ closeOfArray(s, openOfArray(s, i) + 1) # 0}
      i == least(at)
      e == closeOfArray(s, openOfArray(s, i) + 1)
  IN  IF at = {} THEN NoMatch ELSE Match(s, i, skipSpace(s, e + 1), <<>>)

\* /(\[\s*\{[\s\S]*\}\]|\{\s*[\s\S]*\})/g from lastIndex: the first position
\* an alternative matches at, and from there the longest text from "[{" to a
\* "}]", else from "{" to a "}"
looseArray(s, i) ==
  IF openOfArray(s, i) # 0
    THEN lastIndexOf(s, <<"}", "]">>, openOfArray(s, i) + 1) ELSE 0
looseObject(s, i) ==
  IF s[i] = "{" THEN lastIndexOf(s, <<"}">>, i + 1) ELSE 0

execLoose(s, from) ==
  LET at == {i \in (from + 1)..Len(s) :
               looseArray(s, i) # 0 \/ looseObject(s, i) # 0}
      i == least(at)
      last == IF looseArray(s, i) # 0 THEN looseArray(s, i) + 1
              ELSE looseObject(s, i)
  IN  IF at = {} THEN NoMatch ELSE Match(s, i, last, SubSeq(s, i, last))

\* the patterns of extractJSONOperations, in the order of the array
NPatterns == 4
exec(pattern, s, from) ==
  CASE pattern = 1 -> execFenced(FenceJson, s, from)
    [] pattern = 2 -> execFenced(Fence, s, from)
    [] pattern = 3 -> execArray(s, from)
    [] pattern = 4 -> execLoose(s, from)

\* match[1] || match[0]
contentOf(m) == IF m.group # <<>> THEN m.group ELSE m.whole

(***************************************************************************)
(* cleanJSONContent.  A replacement is the set of its hits: where the       *)
(* pattern matches, up to where, and what the match becomes.                *)
(***************************************************************************)
Hit(first, last, becomes) == [first |-> first, last |-> last, becomes |-> becomes]

\* String.prototype.replace with a /g pattern, from position i: the leftmost
\* hit from i on is replaced, and the search goes on after it
RECURSIVE replaceFrom(_, _, _)
replaceFrom(s, hits, i) ==
  LET later == {h \in hits : h.first >= i}
      h == CHOOSE x \in later : \A y \in later : x.first <= y.first
  IN  IF later = {} THEN SubSeq(s, i, Len(s))
      ELSE SubSeq(s, i, h.first - 1) \o h.becomes \o replaceFrom(s, hits, h.last + 1)

\* String.prototype.replace with a pattern that is not /g: the leftmost hit
replaceFirst(s, hits) ==
  LET h == CHOOSE x \in hits : \A y \in hits : x.first <= y.first
  IN  IF hits = {} THEN s
      ELSE SubSeq(s, 1, h.first - 1) \o h.becomes \o SubSeq(s, h.last + 1, Len(s))

\* .replace(/,\s*}/g, '}') and .replace(/,\s*]/g, ']')
dropCommaBefore(close, s) ==
  replaceFrom(s, {Hit(i, skipSpace(s, i + 1), <<close>>) :
                    i \in {k \in 1..Len(s) : /\ s[k] = ","
                                              /\ skipSpace(s, k + 1) <= Len(s)
                                              /\ s[skipSpace(s, k + 1)] = close}}, 1)

\* the end of the run of word characters that starts at position i
RECURSIVE wordEnd(_, _)
wordEnd(s, i) ==
  IF i <= Len(s) /\ s[i] \in WordChars THEN wordEnd(s, i + 1) ELSE i

\* (['"])?([a-zA-Z0-9_]+)(['"])?\s*: at position i: where the word starts,
\* where it ends, and where the colon is (0 when the pattern does not match)
keyStart(s, i) == IF s[i] \in {APOS, QUOTE} THEN i + 1 ELSE i
keyEnd(s, i) == wordEnd(s, keyStart(s, i))
keyColon(s, i) ==
  LET e == keyEnd(s, i)
      c == skipSpace(s, IF e <= Len(s) /\ s[e] \in {APOS, QUOTE} THEN e + 1 ELSE e)
  IN  IF e > keyStart(s, i) /\ c <= Len(s) /\ s[c] = ":" THEN c ELSE 0

\* quoteKeys for keys that stand in quotes only
quoteKeysQuotedOnly(s) ==
  replaceFrom(s, {Hit(i, keyColon(s, i),
                      <<QUOTE>> \o SubSeq(s, keyStart(s, i), keyEnd(s, i) - 1)
                        \o <<QUOTE, ":">>) :
                    i \in {k \in 1..Len(s) :
                             s[k] \in {APOS, QUOTE} /\ keyColon(s, k) # 0}}, 1)

\* .replace(/(['"])?([a-zA-Z0-9_]+)(['"])?\s*:/g, '"$2":'): a word before a
\* colon, with the quotes it may have, becomes the word in double quotes
quoteKeys(s) ==
  replaceFrom(s, {Hit(i, keyColon(s, i),
                      <<QUOTE>> \o SubSeq(s, keyStart(s, i), keyEnd(s, i) - 1)
                        \o <<QUOTE, ":">>) :
                    i \in {k \in 1..Len(s) : keyColon(s, k) # 0}}, 1)

\* :\s*'([^']*)' at position i: the positions of the two apostrophes (0 when
\* the pattern does not match)
valueOpen(s, i) ==
  IF s[i] = ":" /\ skipSpace(s, i + 1) <= Len(s) /\ s[skipSpace(s, i + 1)] = APOS
    THEN skipSpace(s, i + 1) ELSE 0
valueClose(s, i) ==
  IF valueOpen(s, i) # 0 THEN indexOf(s, <<APOS>>, valueOpen(s, i) + 1) ELSE 0

\* .replace(/:\s*'([^']*)'/g, ': "$1"')
doubleQuoteValues(s) ==
  replaceFrom(s, {Hit(i, valueClose(s, i),
                      <<":", " ", QUOTE>>
                        \o SubSeq(s, valueOpen(s, i) + 1, valueClose(s, i) - 1)
                        \o <<QUOTE>>) :
                    i \in {k \in 1..Len(s) : valueClose(s, k) # 0}}, 1)

\* .replace(/\\'/g, "'"), .replace(/\\n/g, '\n'), .replace(/\\t/g, '\t'):
\* the backslash and the letter become the character
unescape(letter, char, s) ==
  replaceFrom(s, {Hit(i, i + 1, <<char>>) :
                    i \in {k \in 1..(Len(s) - 1) :
                             s[k] = BACKSLASH /\ s[k + 1] = letter}}, 1)

\* .replace(/,\s*$/, ''): the first comma that only white space follows goes,
\* with what follows it
dropCommaAtEnd(s) ==
  replaceFirst(s, {Hit(i, Len(s), <<>>) :
                     i \in {k \in 1..Len(s) :
                              s[k] = "," /\ skipSpace(s, k + 1) > Len(s)}})

\* the last position of s that holds no white space; 0 when there is none
RECURSIVE lastInk(_, _)
lastInk(s, k) ==
  IF k = 0 \/ s[k] \notin WhiteSpace THEN k ELSE lastInk(s, k - 1)

\* String.prototype.trim
trim(s) == SubSeq(s, skipSpace(s, 1), lastInk(s, Len(s)))

\* cleanJSONContent: the replacements in the order of the chain
cleanJSONContent(content) ==
  LET r1 == dropCommaBefore("}", content)
      r2 == dropCommaBefore("]", r1)
      r3 == quoteKeys(r2)
      r4 == doubleQuoteValues(r3)
      r5 == unescape(APOS, APOS, r4)
      r6 == unescape("n", NL, r5)
      r7 == unescape("t", TAB, r6)
      r8 == dropCommaAtEnd(r7)
  IN  trim(r8)

(***************************************************************************)
(* JSON.parse on the texts of the model: arrays, objects, strings with the  *)
(* escapes \n \t \" \\ \/, whole numbers without sign, null, true, false.   *)
(* No text of the model holds another escape, a sign, a fraction or an      *)
(* exponent.                                                                *)
(***************************************************************************)
JString(chars) == [type |-> "string", chars |-> chars]
JNumber(n) == [type |-> "number", value |-> n]
JBool(b) == [type |-> "boolean", value |-> b]
JArray(items) == [type |-> "array", items |-> items]
\* an object is its members in the order of the text
JObject(members) == [type |-> "object", members |-> members]
Member(key, value) == [key |-> key, value |-> value]

\* String.prototype.charAt: the character at position k; the empty text past the end
charAt(s, k) == IF k >= 1 /\ k <= Len(s) THEN s[k] ELSE ""

SyntaxError == [ok |-> FALSE, value |-> Null, next |-> 0]
Parsed(v, next) == [ok |-> TRUE, value |-> v, next |-> next]

\* what follows the backslash in a string, and the character it stands for
Escapes ==
  ("n" :> NL) @@ ("t" :> TAB) @@ (QUOTE :> QUOTE) @@ (BACKSLASH :> BACKSLASH)
    @@ ("/" :> "/")

DigitValue ==
  ("0" :> 0) @@ ("1" :> 1) @@ ("2" :> 2) @@ ("3" :> 3) @@ ("4" :> 4)
    @@ ("5" :> 5) @@ ("6" :> 6) @@ ("7" :> 7) @@ ("8" :> 8) @@ ("9" :> 9)

\* a string from the position after its opening quote: a line break or a
\* tab inside the quotes is a bad control character
RECURSIVE parseString(_, _, _)
parseString(s, i, acc) ==
  IF i > Len(s) THEN SyntaxError
  ELSE IF s[i] = QUOTE THEN Parsed(JString(acc), i + 1)
  ELSE IF s[i] = BACKSLASH
    THEN IF charAt(s, i + 1) \in DOMAIN Escapes
           THEN parseString(s, i + 2, Append(acc, Escapes[s[i + 1]]))
           ELSE SyntaxError
  ELSE IF s[i] \in {NL, TAB} THEN SyntaxError
  ELSE parseString(s, i + 1, Append(acc, s[i]))

\* the digits of a number from position i
RECURSIVE parseDigits(_, _, _)
parseDigits(s, i, n) ==
  IF charAt(s, i) \in Digits THEN parseDigits(s, i + 1, 10 * n + DigitValue[s[i]])
  ELSE Parsed(JNumber(n), i)

RECURSIVE parseValue(_, _)
RECURSIVE parseElements(_, _, _)
RECURSIVE parseMembers(_, _, _)

\* the elements of an array from position i, after "[" or ","
parseElements(s, i, acc) ==
  LET v == parseValue(s, i)
      k == skipSpace(s, v.next)
  IN  IF ~v.ok THEN SyntaxError
      ELSE IF charAt(s, k) = "," THEN parseElements(s, k + 1, Append(acc, v.value))
      ELSE IF charAt(s, k) = "]" THEN Parsed(JArray(Append(acc, v.value)), k + 1)
      ELSE SyntaxError

\* the members of an object from position i, after "{" or ","
parseMembers(s, i, acc) ==
  LET q == skipSpace(s, i)
      key == IF charAt(s, q) = QUOTE THEN parseString(s, q + 1, <<>>)
             ELSE SyntaxError
      c == skipSpace(s, key.next)
      v == IF key.ok /\ charAt(s, c) = ":" THEN parseValue(s, c + 1)
           ELSE SyntaxError
      k == skipSpace(s, v.next)
      all == Append(acc, Member(key.value.chars, v.value))
  IN  IF ~v.ok THEN SyntaxError
      ELSE IF charAt(s, k) = "," THEN parseMembers(s, k + 1, all)
      ELSE IF charAt(s, k) = "}" THEN Parsed(JObject(all), k + 1)
      ELSE SyntaxError

\* a value from position i
parseValue(s, i) ==
  LET k == skipSpace(s, i)
      c == charAt(s, k)
  IN  CASE c = "[" ->
             IF charAt(s, skipSpace(s, k + 1)) = "]"
               THEN Parsed(JArray(<<>>), skipSpace(s, k + 1) + 1)
               ELSE parseElements(s, k + 1, <<>>)
        [] c = "{" ->
             IF charAt(s, skipSpace(s, k + 1)) = "}"
               THEN Parsed(JObject(<<>>), skipSpace(s, k + 1) + 1)
               ELSE parseMembers(s, k + 1, <<>>)
        [] c = QUOTE -> parseString(s, k + 1, <<>>)
        [] c = "0" -> Parsed(JNumber(0), k + 1)
        [] c \in Digits \ {"0"} -> parseDigits(s, k, 0)
        [] startsWith(s, k, <<"n", "u", "l", "l">>) -> Parsed(Null, k + 4)
        [] startsWith(s, k, <<"t", "r", "u", "e">>) -> Parsed(JBool(TRUE), k + 4)
        [] startsWith(s, k, <<"f", "a", "l", "s", "e">>) -> Parsed(JBool(FALSE), k + 5)
        [] OTHER -> SyntaxError

\* JSON.parse: one value and nothing but white space after it
JSONparse(s) ==
  LET v == parseValue(s, 1)
  IN  IF v.ok /\ skipSpace(s, v.next) > Len(s) THEN v ELSE SyntaxError

\* v[key] of a parsed value: the member of an object (the last one of that
\* name), undefined on an array, a string, a number or a boolean
JUndefined == [type |-> "undefined"]
RECURSIVE lookup(_, _, _)
lookup(members, key, k) ==
  IF k = 0 THEN JUndefined
  ELSE IF members[k].key = key THEN members[k].value
  ELSE lookup(members, key, k - 1)

get(v, key) ==
  IF v.type = "object" THEN lookup(v.members, key, Len(v.members))
  ELSE JUndefined

\* the truth of a value in a condition
truthy(v) ==
  CASE v.type = "undefined" -> FALSE
    [] v.type = "null" -> FALSE
    [] v.type = "string" -> v.chars # <<>>
    [] v.type = "number" -> v.value # 0
    [] v.type = "boolean" -> v.value
    [] OTHER -> TRUE

kAction == <<"a", "c", "t", "i", "o", "n">>
kFile == <<"f", "i", "l", "e">>

\* "x.action && x.file" of the shape checks: reading a property of null
\* throws a TypeError, which the catch around the parse takes
shape(x) ==
  IF x.type = "null" THEN "throws"
  ELSE IF truthy(get(x, kAction)) /\ truthy(get(x, kFile)) THEN "directive"
  ELSE "other"

\* the elements one matched span adds to jsonBlocks: all of an array whose
\* first element has the shape, the object that has the shape itself
blocksOf(content) ==
  LET parsed == JSONparse(cleanJSONContent(content))
  IN  IF ~parsed.ok THEN <<>>
      ELSE IF parsed.value.type = "array"
        THEN IF Len(parsed.value.items) > 0
                  /\ shape(parsed.value.items[1]) = "directive"
               THEN parsed.value.items ELSE <<>>
      ELSE IF shape(parsed.value) = "directive" THEN <<parsed.value>>
      ELSE <<>>

(***************************************************************************)
(* The texts handed to extractJSONOperations: the wire format of the       *)
(* system prompt, written out from values, and texts around it.             *)
(***************************************************************************)
\* the characters of a string value between its quotes
RECURSIVE escaped(_)
escaped(chars) ==
  IF chars = <<>> THEN <<>>
  ELSE (CASE Head(chars) = NL -> <<BACKSLASH, "n">>
          [] Head(chars) = TAB -> <<BACKSLASH, "t">>
          [] Head(chars) = QUOTE -> <<BACKSLASH, QUOTE>>
          [] Head(chars) = BACKSLASH -> <<BACKSLASH, BACKSLASH>>
          [] OTHER -> <<Head(chars)>>) \o escaped(Tail(chars))

DigitText == <<"1", "2", "3", "4", "5", "6", "7", "8", "9">>

\* the JSON text of a value
RECURSIVE stringify(_)
RECURSIVE stringifyItems(_, _)
RECURSIVE stringifyMembers(_, _)
stringifyItems(items, k) ==
  IF k > Len(items) THEN <<>>
  ELSE (IF k > 1 THEN <<",">> ELSE <<>>) \o stringify(items[k])
         \o stringifyItems(items, k + 1)

stringifyMembers(members, k) ==
  IF k > Len(members) THEN <<>>
  ELSE (IF k > 1 THEN <<",">> ELSE <<>>)
         \o <<QUOTE>> \o escaped(members[k].key) \o <<QUOTE, ":">>
         \o stringify(members[k].value) \o stringifyMembers(members, k + 1)

stringify(v) ==
  CASE v.type = "string" -> <<QUOTE>> \o escaped(v.chars) \o <<QUOTE>>
    [] v.type = "number" -> IF v.value = 0 THEN <<"0">> ELSE <<DigitText[v.value]>>
    [] v.type = "null" -> <<"n", "u", "l", "l">>
    [] v.type = "array" -> <<"[">> \o stringifyItems(v.items, 1) \o <<"]">>
    [] v.type = "object" -> <<"{">> \o stringifyMembers(v.members, 1) \o <<"}">>

\* a block of the text between fences, as the system prompt shows it
fencedJson(t) == FenceJson \o <<NL>> \o t \o <<NL>> \o Fence
fenced(t) == Fence \o <<NL>> \o t \o <<NL>> \o Fence

kLine == <<"l", "i", "n", "e">>
kCode == <<"c", "o", "d", "e">>
kContent == <<"c", "o", "n", "t", "e", "n", "t">>
kNote == <<"n", "o", "t", "e">>
tInsert == <<"i", "n", "s", "e", "r", "t">>
tDelete == <<"d", "e", "l", "e", "t", "e">>
tCreate == <<"c", "r", "e", "a", "t", "e">>
tDeleteFile == tDelete \o <<"_">> \o kFile
tATxt == <<"a", ".", "t", "x", "t">>
tBTxt == <<"b", ".", "t", "x", "t">>
tHi == <<"h", "i">>

\* the four directive shapes of the system prompt
InsertShape(file, line, code) ==
  JObject(<<Member(kAction, JString(tInsert)), Member(kFile, JString(file)),
            Member(kLine, JNumber(line)), Member(kCode, JString(code))>>)
DeleteShape(file, line, code) ==
  JObject(<<Member(kAction, JString(tDelete)), Member(kFile, JString(file)),
            Member(kLine, JNumber(line)), Member(kCode, JString(code))>>)
CreateShape(file, content) ==
  JObject(<<Member(kAction, JString(tCreate)), Member(kFile, JString(file)),
            Member(kContent, JString(content))>>)
DeleteFileShape(file) ==
  JObject(<<Member(kAction, JString(tDeleteFile)), Member(kFile, JString(file))>>)

\* an object of commentary among the directives
Commentary == JObject(<<Member(kNote, JString(tHi))>>)

\* string values: plain, with a line break, with a colon, with quotes
Values ==
  { <<"x">>,
    <<"x", NL, "y">>,
    <<"x", ":", " ", "y">>,
    <<"x", " ", QUOTE, "y", QUOTE>> }

\* the four shapes in one array, in a fenced block
FourShapes(code, content) ==
  JArray(<<InsertShape(tATxt, 1, code), DeleteShape(tATxt, 2, code),
           CreateShape(tBTxt, content), DeleteFileShape(tATxt)>>)

RoundTripTexts ==
  { fencedJson(stringify(FourShapes(code, content))) :
      code \in Values, content \in Values }

\* [{action:'create', file:"a.txt", content:'hi',}]
Malformed ==
  <<"[", "{">> \o kAction \o <<":", APOS>> \o tCreate \o <<APOS, ",", " ">>
    \o kFile \o <<":", QUOTE>> \o tATxt \o <<QUOTE, ",", " ">>
    \o kContent \o <<":", APOS>> \o tHi \o <<APOS, ",", "}", "]">>

\* the pieces a text is put together from
Pieces ==
  { <<"o", "k", " ">>,
    fencedJson(stringify(JArray(<<CreateShape(tATxt, tHi)>>))),
    fenced(stringify(JArray(<<CreateShape(tATxt, tHi)>>))),
    stringify(JArray(<<CreateShape(tATxt, tHi)>>)),
    stringify(DeleteFileShape(tBTxt)),
    Malformed,
    stringify(JArray(<<Commentary, DeleteFileShape(tBTxt)>>)),
    stringify(JArray(<<DeleteFileShape(tBTxt), Commentary>>)),
    stringify(JArray(<<Null, DeleteFileShape(tBTxt)>>)) }

RECURSIVE concat(_)
concat(pieces) ==
  IF pieces = <<>> THEN <<>> ELSE Head(pieces) \o concat(Tail(pieces))

Texts == {concat(ps) : ps \in SeqsUpTo(Pieces, MaxPieces)} \cup RoundTripTexts

(***************************************************************************)
(* extractJSONOperations as a state machine: one step per turn of the       *)
(* while loop.  span is the content of the last match and kept what it      *)
(* added to jsonBlocks.                                                     *)
(***************************************************************************)
NoSpan == <<"none">>

ExtractInit ==
  /\ text \in Texts
  /\ patternIdx = 1
  /\ lastIndex = 0
  /\ jsonBlocks = <<>>
  /\ span = NoSpan
  /\ kept = <<>>
  /\ eState = "exec"
  /\ PatchIdle /\ BatchIdle /\ CallsIdle /\ RaceIdle
  /\ ServerIdle

\* pattern.exec(text) finds a match: the body of the while loop
ExecMatch ==
  /\ eState = "exec"
  /\ LET m == exec(patternIdx, text, lastIndex)
     IN  /\ m.found
         /\ span' = contentOf(m)
         /\ kept' = blocksOf(contentOf(m))
         /\ jsonBlocks' = jsonBlocks \o blocksOf(contentOf(m))
         /\ lastIndex' = m.next
  /\ UNCHANGED <<text, patternIdx, eState, pvars, bvars, cvars, rvars, svars>>

\* pattern.exec(text) is null and nothing was found so far: the next pattern,
\* or the end of the array of patterns
NextPattern ==
  /\ eState = "exec"
  /\ ~exec(patternIdx, text, lastIndex).found
  /\ jsonBlocks = <<>>
  /\ patternIdx' = patternIdx + 1
  /\ lastIndex' = 0
  /\ eState' = IF patternIdx = NPatterns THEN "done" ELSE "exec"
  /\ UNCHANGED <<text, jsonBlocks, span, kept, pvars, bvars, cvars, rvars, svars>>

\* the loop over the patterns going on whatever was found
BreakNever ==
  /\ eState = "exec"
  /\ ~exec(patternIdx, text, lastIndex).found
  /\ jsonBlocks # <<>>
  /\ patternIdx' = patternIdx + 1
  /\ lastIndex' = 0
  /\ eState' = IF patternIdx = NPatterns THEN "done" ELSE "exec"
  /\ UNCHANGED <<text, jsonBlocks, span, kept, pvars, bvars, cvars, rvars, svars>>

\* pattern.exec(text) is null and jsonBlocks.length > 0: break
Break ==
  /\ eState = "exec"
  /\ ~exec(patternIdx, text, lastIndex).found
  /\ jsonBlocks # <<>>
  /\ eState' = "done"
  /\ UNCHANGED <<text, patternIdx, lastIndex, jsonBlocks, span, kept, pvars,
                 bvars, cvars, rvars, svars>>

\* return jsonBlocks
ExtractReturn ==
  /\ eState = "done"
  /\ eState' = "returned"
  /\ UNCHANGED <<text, patternIdx, lastIndex, jsonBlocks, span, kept, pvars,
                 bvars, cvars, rvars, svars>>

ExtractNext == ExecMatch \/ NextPattern \/ Break \/ ExtractReturn

SpecExtract == ExtractInit /\ [][ExtractNext]_vars

(***************************************************************************)
(* Properties of the extractor.                                             *)
(***************************************************************************)
\* everything the while loop of one pattern adds to jsonBlocks, from
\* lastIndex on
RECURSIVE yield(_, _, _)
yield(pattern, s, from) ==
  LET m == exec(pattern, s, from)
  IN  IF ~m.found THEN <<>>
      ELSE blocksOf(contentOf(m)) \o yield(pattern, s, m.next)

\* the patterns that find a directive in the text
Yielding(s) == {pattern \in 1..NPatterns : yield(pattern, s, 0) # <<>>}

\* the places of the text where the name of the file stands
Occurrences(s, file) == {k \in 1..Len(s) : startsWith(s, k, file)}

\* the elements of jsonBlocks that name the file
NamedBy(file) ==
  {i \in 1..Len(jsonBlocks) : get(jsonBlocks[i], kFile) = JString(file)}

\* C21: the patterns are tried in the order of the array and the first one
\* that finds a directive is the last one tried: what is returned is what
\* that pattern alone finds, and no file is named by more returned elements
\* than there are places in the text that name it.
C21_FirstYieldingPatternOnly ==
  /\ patternIdx \in 1..(NPatterns + 1)
  /\ jsonBlocks # <<>> => patternIdx = least(Yielding(text))
  /\ eState \in {"done", "returned"} =>
       /\ jsonBlocks = IF Yielding(text) = {} THEN <<>>
                       ELSE yield(least(Yielding(text)), text, 0)
       /\ \A file \in {tATxt, tBTxt} :
            Cardinality(NamedBy(file)) <= Cardinality(Occurrences(text, file))

\* a fenced block whose array the third pattern would find again
C21_Witness ==
  /\ eState = "returned"
  /\ patternIdx = 1
  /\ Len(jsonBlocks) = 1
  /\ yield(3, text, 0) = jsonBlocks

\* the value the last matched span parsed to
spanParsed == JSONparse(cleanJSONContent(span))

\* the element has an action field and a file field
HasBoth(x) ==
  x.type = "object" /\ get(x, kAction) # JUndefined /\ get(x, kFile) # JUndefined

\* C22: when a matched span parses to an array, what the match adds to
\* jsonBlocks is the elements of the array that have both an action and a
\* file field, in their order, wherever the other elements stand.
C22_KeepsConformingElements ==
  (span # NoSpan /\ spanParsed.ok /\ spanParsed.value.type = "array") =>
    kept = SelectSeq(spanParsed.value.items, HasBoth)

\* C23: from a fenced block that holds the four directive shapes as a
\* well-formed JSON array, the four directives are returned with the fields
\* of the input, whatever the string values hold (line breaks, colons and
\* quotes included).
C23_RoundTrip ==
  (eState = "returned" /\ text \in RoundTripTexts) =>
    \A code \in Values, content \in Values :
      text = fencedJson(stringify(FourShapes(code, content))) =>
        jsonBlocks = FourShapes(code, content).items

\* the texts of the model as validateOperation's candidates hold them: the
\* action and file names, the line, the code and content
nameOf(x) ==
  CASE x.type = "undefined" -> Undefined
    [] x.type = "number" -> NotAString
    [] x.type = "string" /\ x.chars = tInsert -> "insert"
    [] x.type = "string" /\ x.chars = tDelete -> "delete"
    [] x.type = "string" /\ x.chars = tCreate -> "create"
    [] x.type = "string" /\ x.chars = tDeleteFile -> "delete_file"
    [] x.type = "string" /\ x.chars = tATxt -> "a.txt"
    [] x.type = "string" /\ x.chars = tBTxt -> "b.txt"

lineOf(x) ==
  CASE x.type = "undefined" -> Undefined
    [] x.type = "number" -> DigitText[x.value]

textOf(x) ==
  CASE x.type = "undefined" -> UndefinedText
    [] x.type = "number" -> <<"#", DigitText[x.value]>>
    [] x.type = "string" -> x.chars

\* an element of jsonBlocks as parseAndExecuteJSON gets it
candidateOf(v) ==
  CASE v.type = "null" -> Null
    [] v.type = "object" ->
         Candidate(nameOf(get(v, kAction)), nameOf(get(v, kFile)),
                   lineOf(get(v, kLine)), textOf(get(v, kCode)),
                   textOf(get(v, kContent)))

candidatesOf(blocks) == [i \in 1..Len(blocks) |-> candidateOf(blocks[i])]

\* C24: the text [{action:'create', file:"a.txt", content:'hi',}] gives one
\* candidate, and validation makes it the directive to create a.txt with
\* the content hi.
C24_MalformedIsRepaired ==
  (eState = "returned" /\ text = Malformed) =>
    /\ Len(jsonBlocks) = 1
    /\ validated(candidatesOf(jsonBlocks))
         = <<Directive("create", "a.txt", NoLine, NoText, tHi)>>

\* the malformed text, found by the third pattern and returned
C24_Witness ==
  /\ eState = "returned"
  /\ text = Malformed
  /\ patternIdx = 3
  /\ Len(jsonBlocks) = 1

(***************************************************************************)
(* Properties of deleteAtLine and insertAtLine, on the directives the       *)
(* line-patch specification applies: pPrev are the lines the last applied   *)
(* directive was given, pLines the lines it returned.                       *)
(***************************************************************************)
\* lines L .. L + k - 1 are there and equal the k lines of the code
MatchesAt(lines, op) ==
  /\ Numeric(op)
  /\ 1 <= op.line /\ op.line <= Len(lines)
  /\ op.line + Len(split(op.code)) - 1 <= Len(lines)
  /\ SubSeq(lines, op.line, op.line + Len(split(op.code)) - 1) = split(op.code)

\* the line number is none of the sequence
OutsideOf(lines, op) == Numeric(op) /\ (op.line < 1 \/ op.line > Len(lines))

\* C25: a delete succeeds exactly when its lines are in range and equal the
\* expected lines; it then removes exactly those lines; it fails as out of
\* range when the line is below 1 or above the length, as a content mismatch
\* otherwise.
C25_DeleteAtLine ==
  /\ (pState \in {"sorted", "joined", "thrown"} /\ pIdx >= 1
        /\ pLast.action = "delete") =>
       /\ MatchesAt(pPrev, pLast)
       /\ pLines = SubSeq(pPrev, 1, pLast.line - 1)
                     \o SubSeq(pPrev, pLast.line + Len(split(pLast.code)), Len(pPrev))
  /\ (pState = "thrown" /\ pFailing.action = "delete") =>
       /\ ~MatchesAt(pLines, pFailing)
       /\ pErr = IF OutsideOf(pLines, pFailing) THEN "OutOfRange"
                 ELSE "ContentMismatch"

\* a delete of two lines that succeeded
C25_Witness ==
  /\ pState = "joined"
  /\ pIdx >= 1
  /\ pLast.action = "delete"
  /\ Len(split(pLast.code)) = 2
  /\ Len(pLines) = Len(pPrev) - 2

\* C26: an insert at a line from 1 to length + 1 returns the lines before
\* that line, the lines of the code, and the lines from that line on.
C26_InsertAtLine ==
  /\ (pState \in {"sorted", "joined", "thrown"} /\ pIdx >= 1
        /\ pLast.action = "insert" /\ Numeric(pLast)) =>
       /\ 1 <= pLast.line /\ pLast.line <= Len(pPrev) + 1
       /\ pLines = SubSeq(pPrev, 1, pLast.line - 1) \o split(pLast.code)
                     \o SubSeq(pPrev, pLast.line, Len(pPrev))
  /\ (pState = "thrown" /\ pFailing.action = "insert") =>
       /\ Numeric(pFailing)
       /\ pFailing.line < 1 \/ pFailing.line > Len(pLines) + 1

\* an insert of two lines in the middle of a file of two lines
C26_Witness ==
  /\ pState = "joined"
  /\ pIdx >= 1
  /\ pLast.action = "insert"
  /\ pLast.line = 2
  /\ Len(pPrev) = 2
  /\ Len(split(pLast.code)) = 2
  /\ Len(pLines) = 4

\* the directive about to be applied
pNext == pSorted[pIdx + 1]
pApplying == pState = "sorted" /\ pIdx < Len(pSorted)

\* C27: when a directive with line L is applied, the line at position L of
\* the current lines is the line that was at position L when the file was
\* fetched.
C27_LineIsPreBatchLine ==
  (pApplying /\ Numeric(pNext) /\ pNext.line \in 1..Len(pOrig)) =>
    /\ pNext.line <= Len(pLines)
    /\ pLines[pNext.line] = pOrig[pNext.line]

\* C28: when a directive with line L is about to be applied, the first L - 1
\* of the current lines are the first L - 1 lines of the file as fetched.
C28_PrefixIsPreBatchPrefix ==
  (pApplying /\ Numeric(pNext)) =>
    \A i \in 1..(pNext.line - 1) :
      i <= Len(pOrig) => (i <= Len(pLines) /\ pLines[i] = pOrig[i])

(***************************************************************************)
(* Two runs of processFileOperations on one file.  Between the fetch of a   *)
(* run and its write the other run may fetch and write.                     *)
(***************************************************************************)
Runs == {1, 2}
RaceFile == "a.txt"

RacePool ==
  { Directive("insert", RaceFile, 1, <<"y">>, NoText),
    Directive("insert", RaceFile, 1, <<"x">>, NoText),
    Directive("insert", RaceFile, 2, <<"y">>, NoText),
    Directive("delete", RaceFile, 1, <<"x">>, NoText) }

RaceGroups == SeqsUpTo(RacePool, MaxRace) \ {<<>>}

NotFetched == [content |-> <<>>, sha |-> NoSha, at |-> 0]
NoResult == Result("none", "none", FALSE, "none", NoErr)

RaceInit ==
  /\ rGroup \in [Runs -> RaceGroups]
  /\ rPc = [r \in Runs |-> "start"]
  /\ rFetched = [r \in Runs |-> NotFetched]
  /\ rStore \in Stores
  /\ rPuts = <<>>
  /\ rResult = [r \in Runs |-> NoResult]
  /\ PatchIdle /\ BatchIdle /\ CallsIdle /\ ExtractIdle
  /\ ServerIdle

\* const fileData = await github.getFileContent(filePath), and the catch of
\* the caller when it throws
RaceFetch(r) ==
  /\ rPc[r] = "start"
  /\ LET g == getFileContent(rStore, RaceFile, FALSE)
     IN  IF g.ok
           THEN /\ rPc' = [rPc EXCEPT ![r] = "fetched"]
                /\ rFetched' = [rFetched EXCEPT
                                  ![r] = [content |-> g.content, sha |-> g.sha,
                                          at |-> Len(rPuts)]]
                /\ UNCHANGED rResult
           ELSE /\ rPc' = [rPc EXCEPT ![r] = "returned"]
                /\ rResult' = [rResult EXCEPT
                                 ![r] = Result(RaceFile, "modify", FALSE, "none", g.err)]
                /\ UNCHANGED rFetched
  /\ UNCHANGED <<rGroup, rStore, rPuts, pvars, bvars, cvars, evars, svars>>

\* a put as the store got it: the tag and content sent, the content the
\* file had, and whether the store took it
Put(r, sha, content, replaced, ok) ==
  [run |-> r, sha |-> sha, content |-> content, replaced |-> replaced, ok |-> ok]

\* the rest of the run, with the tag of the file as it is now instead of the
\* tag that was fetched
RaceWriteCurrentTag(r) ==
  /\ rPc[r] = "fetched"
  /\ LET a == applyAll(split(rFetched[r].content), sort(rGroup[r]))
         newContent == join(a.lines)
         sha == Sha(rStore[RaceFile].content)
         u == updateFile(rStore, RaceFile, newContent, sha, FALSE)
     IN  IF ~a.ok
           THEN /\ rResult' = [rResult EXCEPT
                                 ![r] = Result(RaceFile, "modify", FALSE, "none",
                                               Err(a.err, RaceFile))]
                /\ UNCHANGED <<rStore, rPuts>>
           ELSE /\ rStore' = u.store
                /\ rPuts' = Append(rPuts, Put(r, sha, newContent,
                                              rStore[RaceFile].content, u.ok))
                /\ rResult' = [rResult EXCEPT
                                 ![r] = Result(RaceFile, "modify", u.ok, "none", u.err)]
  /\ rPc' = [rPc EXCEPT ![r] = "returned"]
  /\ UNCHANGED <<rGroup, rFetched, pvars, bvars, cvars, evars, svars>>

\* the rest of the run: sort, apply, join, await github.updateFile(filePath,
\* newContent, fileData.sha, ...), and the catch of the caller
RaceWrite(r) ==
  /\ rPc[r] = "fetched"
  /\ LET a == applyAll(split(rFetched[r].content), sort(rGroup[r]))
         newContent == join(a.lines)
         u == updateFile(rStore, RaceFile, newContent, rFetched[r].sha, FALSE)
     IN  IF ~a.ok
           THEN /\ rResult' = [rResult EXCEPT
                                 ![r] = Result(RaceFile, "modify", FALSE, "none",
                                               Err(a.err, RaceFile))]
                /\ UNCHANGED <<rStore, rPuts>>
           ELSE /\ rStore' = u.store
                /\ rPuts' = Append(rPuts, Put(r, rFetched[r].sha, newContent,
                                              rStore[RaceFile].content, u.ok))
                /\ rResult' = [rResult EXCEPT
                                 ![r] = Result(RaceFile, "modify", u.ok, "none", u.err)]
  /\ rPc' = [rPc EXCEPT ![r] = "returned"]
  /\ UNCHANGED <<rGroup, rFetched, pvars, bvars, cvars, evars, svars>>

RaceNext == \E r \in Runs : RaceFetch(r) \/ RaceWrite(r)

SpecRace == RaceInit /\ [][RaceNext]_vars

\* the content the group of a run makes of a content
patched(r, content) == join(applyAll(split(content), sort(rGroup[r])).lines)

\* the store took a put between the fetch of put i's run and put i
Overtaken(i) == \E j \in (rFetched[rPuts[i].run].at + 1)..(i - 1) : rPuts[j].ok

\* C29: a put carries the tag its own run fetched; a put that the store took
\* stored the patch of the content it replaced, and its run reports success;
\* a run whose put the store refused reports failure; and of two runs that
\* overlap, the store takes the put of at most one.
C29_AtMostOneOverlappingWrite ==
  \A i \in 1..Len(rPuts) :
    /\ rPuts[i].sha = rFetched[rPuts[i].run].sha
    /\ rPuts[i].ok => rPuts[i].content = patched(rPuts[i].run, rPuts[i].replaced)
    /\ rResult[rPuts[i].run].success = rPuts[i].ok
    /\ Overtaken(i) => ~rPuts[i].ok

\* C29, as the code has it: as above, but the store takes the put of an
\* overtaken run when the puts it took in between left the file with the
\* content, and so the tag, that the run fetched.
C29_NoLostUpdate ==
  \A i \in 1..Len(rPuts) :
    /\ rPuts[i].sha = rFetched[rPuts[i].run].sha
    /\ rPuts[i].ok => rPuts[i].content = patched(rPuts[i].run, rPuts[i].replaced)
    /\ rResult[rPuts[i].run].success = rPuts[i].ok
    /\ Overtaken(i) => (rPuts[i].ok <=> rPuts[i].replaced = rFetched[rPuts[i].run].content)

\* both runs fetched, the store took the put of one and refused the other's
C29_Witness ==
  /\ Len(rPuts) = 2
  /\ rFetched[1].at = 0 /\ rFetched[2].at = 0
  /\ rPuts[1].ok
  /\ ~rPuts[2].ok
  /\ ~rResult[rPuts[2].run].success
  /\ rStore[RaceFile].content = rPuts[1].content

(***************************************************************************)
(* A delete_file directive and a group on the same file in one batch.       *)
(***************************************************************************)
\* delete_file directive k deleted the file that group m is for
DeletedBefore(k, m) ==
  /\ DeleteResult(k).success
  /\ fileOperations[m].file = deleteFileOperations[k].file

\* the batch has a create directive for the file
CreatedAgain(f) == \E c \in Indices(createOperations) : createOperations[c].file = f

StepFailed ==
  /\ Len(results') = Len(results) + 1
  /\ ~results'[Len(results')].success

\* the calls this step made
StepCalls == {calls'[i] : i \in Len(calls) + 1..Len(calls')}

\* C31: a step of the batch that ends in a failed result makes calls on its
\* own file only, none of them an accepted write or delete, and leaves every
\* file of the store what the steps before it made of it (the file of the
\* step itself may have been replaced by another writer meanwhile).
C31_FailureUndoesNothing ==
  [][ StepFailed =>
        LET f == results'[Len(results')].file
        IN  /\ \A c \in StepCalls : c.path = f /\ (c.op # "get" => ~c.ok)
            /\ \A p \in Paths :
                 store'[p] # store[p] => p = f /\ store'[p] = File(OtherContent)
    ]_vars

\* a group has patched its file, a later directive of the batch has failed,
\* and the file is still what the group wrote
C31_Witness ==
  /\ returned
  /\ \E i, j \in Indices(results) :
       /\ i < j
       /\ results[i].action = "modify" /\ results[i].success
       /\ ~results[j].success
       /\ \E c \in {calls[n] : n \in Indices(calls)} :
            /\ c.op = "put" /\ c.ok /\ c.path = results[i].file
            /\ store[c.path] = File(c.content)
            /\ store[c.path] # store0[c.path]

(***************************************************************************)
(* The store calls a run makes before it ends.                              *)
(***************************************************************************)
\* C32: the run ends with a result list, not with an exception, and each
\* delete_file directive, each group and each create directive has made at
\* most two store calls.
C32_ReturnsWithinTwoCallsEach ==
  /\ ~raised
  /\ \A k \in 1..nDel : Len(CallsOf("delete_file", k)) <= 2
  /\ \A m \in 1..nMod : Len(CallsOf("modify", m)) <= 2
  /\ \A k \in 1..nCre : Len(CallsOf("create", k)) <= 2

(***************************************************************************)
(* Two inserts at one line.                                                 *)
(***************************************************************************)
\* directives i and j of the group, i before j, are inserts at the same
\* line, a line from 1 to one past the end of the file as fetched
SameLineInserts(g, i, j) ==
  /\ i < j
  /\ g[i].action = "insert" /\ g[j].action = "insert"
  /\ Numeric(g[i])
  /\ g[i].line = g[j].line
  /\ g[i].line \in 1..(Len(pOrig) + 1)

\* the lines of j's code, then those of i's, then the line that had their
\* line number (or the end of the file), stand at position k
BlocksAt(lines, g, i, j, k) ==
  LET both == split(g[j].code) \o split(g[i].code)
      L == g[i].line
  IN  /\ k + Len(both) - 1 <= Len(lines)
      /\ SubSeq(lines, k, k + Len(both) - 1) = both
      /\ IF L <= Len(pOrig)
           THEN k + Len(both) <= Len(lines) /\ lines[k + Len(both)] = pOrig[L]
           ELSE k + Len(both) - 1 = Len(lines)

\* every other directive of the group is an insert at another line
OthersInsertElsewhere(g, i, j) ==
  \A n \in (1..Len(g)) \ {i, j} :
    g[n].action = "insert" /\ g[n].line # g[i].line

\* C33: two inserts of a group at the same line L keep their input order
\* in the sort and are both applied at L: a group of just the two never
\* throws and leaves the lines before L, the block of the second, the block
\* of the first, and the lines from L on; with other inserts at other lines
\* in the group the two blocks stand together, second above first, right
\* before the original line L.
C33_SameLineInsertsStack ==
  \A i, j \in 1..Len(pInput) :
    SameLineInserts(pInput, i, j) =>
      /\ Len(pInput) = 2 =>
           /\ pState # "thrown"
           /\ pState # "fetched" => pSorted = pInput
           /\ pState = "joined" =>
                pLines = SubSeq(pOrig, 1, pInput[1].line - 1)
                           \o split(pInput[2].code) \o split(pInput[1].code)
                           \o SubSeq(pOrig, pInput[1].line, Len(pOrig))
      /\ (pState = "joined" /\ OthersInsertElsewhere(pInput, i, j)) =>
           \E k \in 1..Len(pLines) : BlocksAt(pLines, pInput, i, j, k)

(***************************************************************************)
(* server.js: the conversation.  /api/chat and /api/railway/autofix push    *)
(* the user entry, await the model's reply and push the assistant entry;    *)
(* /api/conversation/clear starts the conversation anew.  A step is what a  *)
(* request runs between two awaits.                                         *)
(***************************************************************************)
MAX_HISTORY == 10

\* the requests the server is serving at once (a new one takes the first
\* free place)
Serving == {1, 2}

Entry(role, req) == [role |-> role, req |-> req]

\* { role: 'system', content: SYSTEM_PROMPT }
SystemPrompt == Entry("system", 0)

\* the cut keeping the last MAX_HISTORY + 1 entries, the system prompt or not
truncateNoSystem(h) ==
  IF Len(h) > MAX_HISTORY + 1
    THEN SubSeq(h, Len(h) - MAX_HISTORY, Len(h))
    ELSE h

\* if (conversationHistory.length > MAX_HISTORY + 1) conversationHistory =
\* [conversationHistory[0], ...conversationHistory.slice(-(MAX_HISTORY))]
truncate(h) ==
  IF Len(h) > MAX_HISTORY + 1
    THEN <<h[1]>> \o SubSeq(h, Len(h) - MAX_HISTORY + 1, Len(h))
    ELSE h

\* conversationHistory.push(entry) and the cut that follows it
Push(entry) ==
  /\ conversationHistory' = truncate(Append(conversationHistory, entry))
  /\ hAll' = Append(hAll, entry)

HistoryInit ==
  /\ conversationHistory = <<SystemPrompt>>
  /\ hAll = <<>>
  /\ hPc = [s \in Serving |-> "free"]
  /\ hKind = [s \in Serving |-> "none"]
  /\ hReq = [s \in Serving |-> 0]
  /\ hStarted = 0
  /\ hStale = {}
  /\ PatchIdle /\ BatchIdle /\ CallsIdle /\ ExtractIdle /\ RaceIdle
  /\ CacheIdle /\ PollIdle

\* res.json(...): the request is over
Respond(s) ==
  /\ hPc' = [hPc EXCEPT ![s] = "free"]
  /\ hKind' = [hKind EXCEPT ![s] = "none"]
  /\ hReq' = [hReq EXCEPT ![s] = 0]

\* a request comes in: /api/chat awaits getFileContext, /api/railway/autofix
\* awaits railway.getDeploymentStatus
Receive(s, kind) ==
  /\ hPc[s] = "free"
  /\ \A t \in Serving : t < s => hPc[t] # "free"
  /\ hStarted < MaxRequests
  /\ hStarted' = hStarted + 1
  /\ hReq' = [hReq EXCEPT ![s] = hStarted + 1]
  /\ hKind' = [hKind EXCEPT ![s] = kind]
  /\ hPc' = [hPc EXCEPT ![s] = IF kind = "chat" THEN "context" ELSE "status"]
  /\ UNCHANGED <<conversationHistory, hAll, hStale, pvars, bvars, cvars, evars,
                 rvars, kvars, dvars>>

\* autofix: the status is there; the request ends when it is not FAILED or
\* CRASHED (or the call threw), and awaits getFileContext when it is
StatusSettles(s) ==
  /\ hPc[s] = "status"
  /\ \E failed \in BOOLEAN :
       IF failed THEN /\ hPc' = [hPc EXCEPT ![s] = "context"]
                      /\ UNCHANGED <<hKind, hReq>>
                 ELSE Respond(s)
  /\ UNCHANGED <<conversationHistory, hAll, hStarted, hStale, pvars, bvars,
                 cvars, evars, rvars, kvars, dvars>>

\* getFileContext has returned (it never throws): the user entry is pushed
\* and deepseek.chat awaited
ContextSettles(s) ==
  /\ hPc[s] = "context"
  /\ Push(Entry("user", hReq[s]))
  /\ hPc' = [hPc EXCEPT ![s] = "reply"]
  /\ UNCHANGED <<hKind, hReq, hStarted, hStale, pvars, bvars, cvars, evars,
                 rvars, kvars, dvars>>

\* deepseek.chat has returned, and the assistant entry is pushed, or it has
\* thrown; nothing the request does after that touches the conversation
ReplySettles(s) ==
  /\ hPc[s] = "reply"
  /\ \E ok \in BOOLEAN :
       IF ok THEN Push(Entry("assistant", hReq[s]))
             ELSE UNCHANGED <<conversationHistory, hAll>>
  /\ Respond(s)
  /\ UNCHANGED <<hStarted, hStale, pvars, bvars, cvars, evars, rvars, kvars,
                 dvars>>

\* /api/conversation/clear: no await in it
Clear ==
  /\ hStarted < MaxRequests
  /\ hStarted' = hStarted + 1
  /\ conversationHistory' = <<SystemPrompt>>
  /\ hAll' = <<>>
  /\ hStale' = {hReq[s] : s \in {t \in Serving : hPc[t] # "free"}}
  /\ UNCHANGED <<hPc, hKind, hReq, pvars, bvars, cvars, evars, rvars, kvars,
                 dvars>>

HistoryNext ==
  \/ \E s \in Serving : \E kind \in {"chat", "autofix"} : Receive(s, kind)
  \/ \E s \in Serving : StatusSettles(s)
  \/ \E s \in Serving : ContextSettles(s)
  \/ \E s \in Serving : ReplySettles(s)
  \/ Clear

SpecHistory == HistoryInit /\ [][HistoryNext]_vars

\* the last n entries of a sequence, all of it when it is shorter
lastOf(q, n) == SubSeq(q, IF Len(q) > n THEN Len(q) - n + 1 ELSE 1, Len(q))

\* C34: conversationHistory has at most MAX_HISTORY + 1 entries, the first is
\* the system prompt, and the others are the MAX_HISTORY entries pushed last
\* since the conversation was cleared.
C34_HistoryBounded ==
  /\ Len(conversationHistory) <= MAX_HISTORY + 1
  /\ conversationHistory[1] = SystemPrompt
  /\ Tail(conversationHistory) = lastOf(hAll, MAX_HISTORY)

\* entries have been cut off, with two requests pushing in turns
C34_Witness ==
  /\ Len(hAll) > MAX_HISTORY
  /\ Len(conversationHistory) = MAX_HISTORY + 1
  /\ \E i \in 1..(Len(hAll) - 1) :
       hAll[i].role = "user" /\ hAll[i + 1].role = "user"

\* C35: the conversation holds no entry of a request that was being served
\* when the conversation was last cleared, and every assistant entry comes
\* right after the user entry of its request.
C35_NothingFromBeforeClear ==
  /\ \A i \in 1..Len(conversationHistory) : conversationHistory[i].req \notin hStale
  /\ \A i \in 1..Len(conversationHistory) :
       conversationHistory[i].role = "assistant" =>
         /\ i > 1
         /\ conversationHistory[i - 1] = Entry("user", conversationHistory[i].req)

(***************************************************************************)
(* server.js: the file cache, for one file of the repository.  The content  *)
(* of the file in the store is a version number, one more with every write  *)
(* of a batch.  /api/chat and /api/railway/autofix read the file through    *)
(* getFileContext; /api/chat and /api/operations/execute run batches.       *)
(***************************************************************************)
NoEntry == [content |-> -1, fresh |-> FALSE]

\* fileCache.set(file.path, { content, timestamp: Date.now() })
CacheEntry(content) == [content |-> content, fresh |-> TRUE]

\* fileCache.has(path) && Date.now() - fileCache.get(path).timestamp < CACHE_TTL
cacheHit == fileCache # NoEntry /\ fileCache.fresh

NotRead == -1

CacheInit ==
  /\ fileCache = NoEntry
  /\ kStore = 0
  /\ kPc = [s \in Serving |-> "free"]
  /\ kKind = [s \in Serving |-> "none"]
  /\ kRead = [s \in Serving |-> NotRead]
  /\ kDone = 0
  /\ PatchIdle /\ BatchIdle /\ CallsIdle /\ ExtractIdle /\ RaceIdle
  /\ HistoryIdle /\ PollIdle

\* the request is over
CacheRespond(s) ==
  /\ kPc' = [kPc EXCEPT ![s] = "free"]
  /\ kKind' = [kKind EXCEPT ![s] = "none"]
  /\ kRead' = [kRead EXCEPT ![s] = NotRead]

\* a request comes in: /api/chat awaits getFileContext (its listFiles),
\* /api/railway/autofix the deployment status, /api/operations/execute its
\* batch
CacheReceive(s, kind) ==
  /\ kPc[s] = "free"
  /\ \A t \in Serving : t < s => kPc[t] # "free"
  /\ kKind' = [kKind EXCEPT ![s] = kind]
  /\ kPc' = [kPc EXCEPT ![s] = CASE kind = "chat" -> "list"
                                 [] kind = "autofix" -> "status"
                                 [] kind = "execute" -> "batch"]
  /\ UNCHANGED <<fileCache, kStore, kRead, kDone, pvars, bvars, cvars, evars,
                 rvars, hvars, dvars>>

\* autofix: the status is there; not FAILED or CRASHED (or thrown) ends the
\* request
CacheStatusSettles(s) ==
  /\ kPc[s] = "status"
  /\ \E failed \in BOOLEAN :
       IF failed THEN /\ kPc' = [kPc EXCEPT ![s] = "list"]
                      /\ UNCHANGED <<kKind, kRead>>
                 ELSE CacheRespond(s)
  /\ UNCHANGED <<fileCache, kStore, kDone, pvars, bvars, cvars, evars, rvars,
                 hvars, dvars>>

\* getFileContext: listFiles has returned; the file is taken from the cache
\* when its entry is younger than CACHE_TTL, and fetched otherwise.  When
\* listFiles threw, getFileContext returns without reading the file.
ListSettles(s) ==
  /\ kPc[s] = "list"
  /\ \E ok \in BOOLEAN :
       kPc' = [kPc EXCEPT ![s] = IF ok /\ ~cacheHit THEN "fetch" ELSE "reply"]
  /\ UNCHANGED <<fileCache, kStore, kKind, kRead, kDone, pvars, bvars, cvars,
                 evars, rvars, hvars, dvars>>

\* the store serves github.getFileContent: the response holds the content
\* the file has now
FetchServed(s) ==
  /\ kPc[s] = "fetch"
  /\ kRead' = [kRead EXCEPT ![s] = kStore]
  /\ kPc' = [kPc EXCEPT ![s] = "fetched"]
  /\ UNCHANGED <<fileCache, kStore, kKind, kDone, pvars, bvars, cvars, evars,
                 rvars, hvars, dvars>>

\* the response of the fetch arrives: the content is cached (or the call
\* threw and the inner catch notes the error); deepseek.chat is awaited
CacheFetchSettles(s) ==
  /\ kPc[s] = "fetched"
  /\ \E ok \in BOOLEAN :
       fileCache' = IF ok THEN CacheEntry(kRead[s]) ELSE fileCache
  /\ kPc' = [kPc EXCEPT ![s] = "reply"]
  /\ kRead' = [kRead EXCEPT ![s] = NotRead]
  /\ UNCHANGED <<kStore, kKind, kDone, pvars, bvars, cvars, evars, rvars,
                 hvars, dvars>>

\* deepseek.chat has returned or thrown.  /api/chat runs the batch when the
\* reply holds directives; /api/railway/autofix clears the cache and runs
\* none.
CacheReplySettles(s) ==
  /\ kPc[s] = "reply"
  /\ \E ok, directives \in BOOLEAN :
       IF ok /\ kKind[s] = "chat" /\ directives
         THEN /\ kPc' = [kPc EXCEPT ![s] = "batch"]
              /\ UNCHANGED <<fileCache, kKind, kRead>>
         ELSE /\ fileCache' = IF ok /\ kKind[s] = "autofix" THEN NoEntry
                              ELSE fileCache
              /\ CacheRespond(s)
  /\ UNCHANGED <<kStore, kDone, pvars, bvars, cvars, evars, rvars, hvars, dvars>>

\* the store accepts a write of the batch to the file
BatchWrites(s) ==
  /\ kPc[s] = "batch"
  /\ kStore < MaxWrites
  /\ kStore' = kStore + 1
  /\ kRead' = [kRead EXCEPT ![s] = kStore + 1]
  /\ kPc' = [kPc EXCEPT ![s] = "written"]
  /\ UNCHANGED <<fileCache, kKind, kDone, pvars, bvars, cvars, evars, rvars,
                 hvars, dvars>>

\* parseAndExecuteJSON has returned, having written or not: /api/chat clears
\* the cache and responds, /api/operations/execute responds
BatchReturns(s) ==
  /\ kPc[s] \in {"batch", "written"}
  /\ fileCache' = IF kKind[s] = "chat" THEN NoEntry ELSE fileCache
  /\ kDone' = IF kPc[s] = "written" THEN kRead[s] ELSE kDone
  /\ CacheRespond(s)
  /\ UNCHANGED <<kStore, pvars, bvars, cvars, evars, rvars, hvars, dvars>>

\* /api/conversation/clear and /api/cache/clear
CacheClear ==
  /\ fileCache # NoEntry
  /\ fileCache' = NoEntry
  /\ UNCHANGED <<kStore, kPc, kKind, kRead, kDone, pvars, bvars, cvars, evars,
                 rvars, hvars, dvars>>

\* CACHE_TTL passes
CacheExpires ==
  /\ cacheHit
  /\ fileCache' = [fileCache EXCEPT !.fresh = FALSE]
  /\ UNCHANGED <<kStore, kPc, kKind, kRead, kDone, pvars, bvars, cvars, evars,
                 rvars, hvars, dvars>>

CacheNext ==
  \/ \E s \in Serving : \E kind \in {"chat", "autofix", "execute"} :
       CacheReceive(s, kind)
  \/ \E s \in Serving : CacheStatusSettles(s)
  \/ \E s \in Serving : ListSettles(s)
  \/ \E s \in Serving : FetchServed(s)
  \/ \E s \in Serving : CacheFetchSettles(s)
  \/ \E s \in Serving : CacheReplySettles(s)
  \/ \E s \in Serving : BatchWrites(s)
  \/ \E s \in Serving : BatchReturns(s)
  \/ CacheClear
  \/ CacheExpires

SpecCache == CacheInit /\ [][CacheNext]_vars

\* C36: an entry of the cache that getFileContext would use holds content at
\* least as new as the last write of a batch that has returned.
C36_NoStaleCache == cacheHit => fileCache.content >= kDone

(***************************************************************************)
(* The page: checkDeploymentStatus, called at load, every 30 seconds and    *)
(* by the refresh button.  A poll is sent, answered by the server with the  *)
(* latest deployment, and handled by the page when the answer arrives.      *)
(***************************************************************************)
\* the polls under way at once (a new one takes the first free place)
Polling == {1, 2}

DeployIds == 1..MaxDeploys

Statuses == {"BUILDING", "SUCCESS", "FAILED", "CRASHED"}

Deployment(id, status) == [id |-> id, status |-> status]

\* data.id of an answer that has no id
UndefinedId == 0

\* { status: 'NO_DEPLOYMENTS', message: 'No deployments found' }: no id
NoDeployments == Deployment(UndefinedId, "NO_DEPLOYMENTS")

\* the fetch threw, or the answer holds data.error
PollError == Deployment(UndefinedId, "error")

\* lastDeploymentStatus = null
NoStatus == Deployment(UndefinedId, "null")

PollInit ==
  /\ handledFailureIds = {}
  /\ lastDeploymentStatus = NoStatus
  /\ dDeployment \in {NoDeployments} \cup {Deployment(1, st) : st \in Statuses}
  /\ dPc = [s \in Polling |-> IF s = 1 THEN "sent" ELSE "free"]
  /\ dData = [s \in Polling |-> NoStatus]
  /\ dShown = [id \in DeployIds |-> 0]
  /\ dReported = {}
  /\ dStarted = 1
  /\ PatchIdle /\ BatchIdle /\ CallsIdle /\ ExtractIdle /\ RaceIdle
  /\ HistoryIdle /\ CacheIdle

\* setInterval fires, or the refresh button is clicked: fetch is called
PollStart(s) ==
  /\ dPc[s] = "free"
  /\ \A t \in Polling : t < s => dPc[t] # "free"
  /\ dStarted < MaxPolls
  /\ dStarted' = dStarted + 1
  /\ dPc' = [dPc EXCEPT ![s] = "sent"]
  /\ UNCHANGED <<handledFailureIds, lastDeploymentStatus, dDeployment, dData,
                 dShown, dReported, pvars, bvars, cvars, evars, rvars, hvars,
                 kvars>>

\* /api/railway/status answers with the latest deployment, or fails
PollServed(s) ==
  /\ dPc[s] = "sent"
  /\ \E ok \in BOOLEAN :
       dData' = [dData EXCEPT ![s] = IF ok THEN dDeployment ELSE PollError]
  /\ dPc' = [dPc EXCEPT ![s] = "answered"]
  /\ UNCHANGED <<handledFailureIds, lastDeploymentStatus, dDeployment, dShown,
                 dReported, dStarted, pvars, bvars, cvars, evars, rvars, hvars,
                 kvars>>

\* what a poll does to the ghost variables and to its place
Handled(s, show) ==
  LET data == dData[s]
      isFailed == data.status \in {"FAILED", "CRASHED"}
  IN  /\ dShown' = IF show THEN [dShown EXCEPT ![data.id] = @ + 1] ELSE dShown
      /\ dReported' = IF isFailed THEN dReported \cup {data.id} ELSE dReported
      /\ dPc' = [dPc EXCEPT ![s] = "free"]
      /\ dData' = [dData EXCEPT ![s] = NoStatus]

\* the earlier checkDeploymentStatus: the modal is shown when the status is
\* failed and the last answer was about another deployment
PollSettlesEarlier(s) ==
  /\ dPc[s] = "answered"
  /\ LET data == dData[s]
         isFailed == data.status \in {"FAILED", "CRASHED"}
         show == isFailed /\ lastDeploymentStatus # NoStatus
                   /\ lastDeploymentStatus.id # data.id
     IN  IF data = PollError
           THEN /\ Handled(s, FALSE)
                /\ UNCHANGED <<handledFailureIds, lastDeploymentStatus>>
           ELSE /\ Handled(s, show)
                /\ UNCHANGED handledFailureIds
                /\ lastDeploymentStatus' = data
  /\ UNCHANGED <<dDeployment, dStarted, pvars, bvars, cvars, evars, rvars,
                 hvars, kvars>>

\* checkDeploymentStatus from "const data = await response.json()" on
PollSettles(s) ==
  /\ dPc[s] = "answered"
  /\ LET data == dData[s]
         isFailed == data.status \in {"FAILED", "CRASHED"}
         show == isFailed /\ data.id \notin handledFailureIds
     IN  IF data = PollError
           THEN /\ Handled(s, FALSE)
                /\ UNCHANGED <<handledFailureIds, lastDeploymentStatus>>
           ELSE /\ Handled(s, show)
                /\ handledFailureIds' = IF show THEN handledFailureIds \cup {data.id}
                                        ELSE handledFailureIds
                /\ lastDeploymentStatus' = data
  /\ UNCHANGED <<dDeployment, dStarted, pvars, bvars, cvars, evars, rvars,
                 hvars, kvars>>

\* the latest deployment goes to another status
StatusChanges ==
  /\ dDeployment # NoDeployments
  /\ \E st \in Statuses \ {dDeployment.status} :
       dDeployment' = Deployment(dDeployment.id, st)
  /\ UNCHANGED <<handledFailureIds, lastDeploymentStatus, dPc, dData, dShown,
                 dReported, dStarted, pvars, bvars, cvars, evars, rvars, hvars,
                 kvars>>

\* a new deployment is started
Redeploy ==
  /\ LET last == IF dDeployment = NoDeployments THEN 0 ELSE dDeployment.id
     IN  /\ last < MaxDeploys
         /\ dDeployment' = Deployment(last + 1, "BUILDING")
  /\ UNCHANGED <<handledFailureIds, lastDeploymentStatus, dPc, dData, dShown,
                 dReported, dStarted, pvars, bvars, cvars, evars, rvars, hvars,
                 kvars>>

PollNext ==
  \/ \E s \in Polling : PollStart(s)
  \/ \E s \in Polling : PollServed(s)
  \/ \E s \in Polling : PollSettles(s)
  \/ StatusChanges
  \/ Redeploy

SpecPoll == PollInit /\ [][PollNext]_vars

\* C37: the modal has been shown once for every deployment id a poll has
\* reported to the page as FAILED or CRASHED, and never for any other.
C37_ModalOncePerFailedDeployment ==
  \A id \in DeployIds : dShown[id] = IF id \in dReported THEN 1 ELSE 0

\* the first poll after the load reported deployment 1 as failed, later
\* polls reported it again and then reported deployment 2 as failed
C37_Witness ==
  /\ dStarted = MaxPolls
  /\ \A s \in Polling : dPc[s] = "free"
  /\ dShown[1] = 1 /\ dShown[2] = 1
  /\ handledFailureIds = {1, 2}

==========================================================================
